---- MODULE Spec2Model ----
(***************************************************************************)
(* Model of the airship game's terrain engine (src/src/engine/Planet.js,   *)
(* the second, storage-buffer version of the class, lines 175-494), of the *)
(* frame loop that drives it (src/src/engine/ThreeEngine.js) and of the    *)
(* game objects the loop updates: GameState, EnemyManager and Enemy, the   *)
(* AirshipController that moves the player and the camera, and the         *)
(* engine's life cycle (init, animation frames, restart, dispose).         *)
(*                                                                         *)
(* Numbers are fixed point.  Unless a comment says otherwise:              *)
(*   lengths, positions and heights are in 1/100 world unit ("centi"),     *)
(*   colour channels are in 1/19200 (19200 = 3 * 6400, so that the k/3     *)
(*   levels of a 4-level quantiser and the /64 Bayer thresholds scaled by  *)
(*   the 0.6 dither strength are whole numbers).                           *)
(* Division rounds toward minus infinity, as floor() does.                 *)
(* In the game objects times are in milliseconds, the player's position is *)
(* in 1/1000 unit, its velocity in 1/1000 unit per second, its facing      *)
(* angle in 1/1000 radian and the difficulty multiplier in 1/100.          *)
(***************************************************************************)
EXTENDS Integers, Sequences, FiniteSets, TLC

VARIABLES
    uniforms,   \* Planet.uniforms: uniform name -> current .value
    camera,     \* ThreeEngine.camera.position, <<x, y, z>>
    base,       \* baseBuffer: vertex index -> <<x, y, z>> local offset
    position,   \* positionBuffer: vertex index -> <<x, y, z>> world position
    gpu,        \* what the last frame's compute pass and render pass consumed
    ctl,        \* the Planet.updateControls call made since the last frame, if any:
                \* its argument and the uniforms before it
    updates,    \* number of Planet.updateControls calls so far
    retro,      \* the last applyRetroEffects evaluation on a quantised colour
    shade,      \* the last colorNode evaluation on a single fragment
    biome,      \* the last evaluation of the biome blend of colorNode
    noise,      \* the last fbm evaluation
    game,       \* ThreeEngine.gameState: the GameState object and its last call
    mgr,        \* ThreeEngine.enemyManager: the EnemyManager object and its last call
    engine,     \* ThreeEngine: isInitialized, animationId, damageCooldown, pending callbacks
    controller  \* ThreeEngine.controller: key states, player position, facing angle, velocity

terrainVars == <<uniforms, camera, base, position, gpu, ctl, updates, retro, shade, biome, noise>>

gameVars == <<game, mgr, engine, controller>>

vars == <<uniforms, camera, base, position, gpu, ctl, updates, retro, shade, biome, noise,
          game, mgr, engine, controller>>

----------------------------------------------------------------------------
(* Bounds of the model *)

\* Grid resolution of the model (the program uses 100 segments per side).
MaxSegments == 2
\* The camera visits grid cells -MaxCamCell .. MaxCamCell on each axis.
MaxCamCell == 1
\* Planet.updateControls calls per behaviour.
MaxUpdates == 2
\* Screen pixels sampled per axis are 0 .. MaxPixel (the Bayer index is taken mod 8).
MaxPixel == 8
\* Single fragments are shaded at x, z = -MaxFrag .. MaxFrag times 2.5 units.
MaxFrag == 2
\* Heights blended are -3.0 .. MaxHeightStep * 0.5, in steps of 0.5.
MaxHeightStep == 20
\* fbm is evaluated for octave counts -MaxOctaves .. MaxOctaves.
MaxOctaves == 3
MaxScore == 200           \* addScore is followed up to this score
MaxManagerCalls == 3      \* update calls followed on one EnemyManager
MaxEnemiesOpt == 4        \* the small maxEnemies option
MaxFrames == 5            \* animate() calls followed on one engine
MaxTerrainFrames == 3     \* animate() calls followed in the terrain's specification

----------------------------------------------------------------------------
(* Program constants *)

uSegmentSize == 512       \* planeWidth / planeWidthSegments = 512 / 100 = 5.12
colorNum == 4             \* float(4.0) passed to applyRetroEffects
BayerSize == 8            \* int(pixelPos.x).mod(8)
ColorUnit == 3 * 6400     \* channel value 1.0
deathDuration == 300      \* Enemy.deathDuration = 0.3 s, in ms
difficultyGrowth == 5     \* EnemyManager.difficultyGrowth = 0.05, in 1/100
maxEnemiesDefault == 15   \* options.maxEnemies || 15
damageCooldownTime == 1000   \* this.damageCooldown = 1.0, in ms
baseSpeed == 10           \* options.baseSpeed || 10, units per second
sprintMult == 2           \* options.sprintMult || 2
turnSpeed == 5            \* options.turnSpeed || 5: 1/1000 radian per ms
camOffset == <<0, 5, 10>> \* options.camOffset || [0, 5, 10], in units
smoothTime == 200         \* options.smoothTime || 0.2, in ms
minHeight == 3000         \* options.minHeight || 3, in 1/1000 unit
maxHeight == 20000        \* options.maxHeight || 20, in 1/1000 unit
verticalSpeed == 8        \* options.verticalSpeed || 8: 1/1000 unit per ms

\* floor(a / b) for b of either sign.
FloorDiv(a, b) == IF b > 0 THEN a \div b ELSE (0 - a) \div (0 - b)

Max(a, b) == IF a >= b THEN a ELSE b
Min(a, b) == IF a <= b THEN a ELSE b
Clamp(x, lo, hi) == Max(lo, Min(x, hi))

RECURSIVE SqrtSearch(_, _, _)
SqrtSearch(n, lo, hi) ==
    IF lo >= hi THEN lo
    ELSE LET mid == (lo + hi + 1) \div 2
         IN  IF mid * mid <= n THEN SqrtSearch(n, mid, hi)
             ELSE SqrtSearch(n, lo, mid - 1)

\* floor(sqrt(n)), n < 2^30
ISqrt(n) == SqrtSearch(n, 0, 32767)

----------------------------------------------------------------------------
(* Planet.setupUniforms *)

\* Later duplicate keys of the object literal win (uSandStart: -1.0, uSandEnd: 1.5).
setupUniforms ==
    [ octaves         |-> 2,
      frequency       |-> 60,      \* 0.06, in 1/1000
      amplitude       |-> 20,      \* 0.2
      lacunarity      |-> 16,      \* 1.6, in 1/10
      persistence     |-> 90,      \* 0.9
      heightScale     |-> 35,      \* plain number
      heightOffset    |-> 9,       \* 0.09
      waterFloor      |-> -200,    \* -2.0
      uSegmentSize    |-> uSegmentSize,
      uCameraPosition |-> <<0, 0, 0>>,
      uSandStart      |-> -100,
      uSandEnd        |-> 150,
      uGrassStart     |-> 150,
      uGrassEnd       |-> 300,
      uRockStart      |-> 600,
      uRockEnd        |-> 800,
      uHorizonDist    |-> 116,     \* whole world units
      uHorizonCurve   |-> 6,       \* 0.06
      uFogColor       |-> <<8127, 10966, 19200>>,   \* color('#aec7ff'), linear
      uFogNear        |-> 80,      \* whole world units
      uFogFar         |-> 150,     \* whole world units
      uShadowPosition |-> <<0, 0, 0>>,
      uShadowRotation |-> 0,       \* quarter turns
      uShadowOffset   |-> 0,
      uShadowRadius   |-> 400,     \* 4.0
      uShadowOpacity  |-> 50 ]     \* 0.5

UniformNames == DOMAIN setupUniforms

----------------------------------------------------------------------------
(* Planet.setupGeometry *)

Verts == 0 .. (MaxSegments + 1) * (MaxSegments + 1) - 1

\* PlaneGeometry(w, h, ws, hs) rotated by -PI/2 about X: vertex iy*(ws+1)+ix
\* lies at (ix*seg - w/2, 0, iy*seg - h/2).
planeVertex(i) ==
    LET ix == i % (MaxSegments + 1)
        iy == i \div (MaxSegments + 1)
        half == (MaxSegments * uSegmentSize) \div 2
    IN  <<ix * uSegmentSize - half, 0, iy * uSegmentSize - half>>

\* initialData; positionStorageAttribute wraps it, baseStorageAttribute wraps
\* a copy (new Float32Array(initialData)), so the two buffers are distinct.
setupGeometry == [i \in Verts |-> planeVertex(i)]

----------------------------------------------------------------------------
(* fbm and the compute kernel *)

\* Gradient noise of ./components/perlin.js at sample point (sx, sz), given in
\* 1/100000; result in 1/100 within [-1, 1].  Deterministic, zero on the
\* integer lattice.
cnoise(sx, sz) ==
    LET fx == (sx \div 1000) % 100
        fz == (sz \div 1000) % 100
    IN  (fx * (100 - fx) - fz * (100 - fz)) \div 25

\* Loop({ start: 0, end: octaves }): iterations i = 0 .. octaves-1.
RECURSIVE fbmLoop(_, _, _, _, _, _, _, _)
fbmLoop(i, octaves, p, total, currFreq, currAmp, lacunarity, persistence) ==
    IF i >= octaves THEN total
    ELSE LET noiseVal == cnoise(p[1] * currFreq, p[3] * currFreq)
         IN  fbmLoop(i + 1, octaves, p,
                     total + FloorDiv(noiseVal * currAmp, 100),
                     FloorDiv(currFreq * lacunarity, 10),
                     FloorDiv(currAmp * persistence, 100),
                     lacunarity, persistence)

\* the loop with an inclusive end, octaves + 1 iterations
fbmInclusive(pos, octaves, frequency, amplitude, lacunarity, persistence) ==
    fbmLoop(0, octaves + 1, pos, 0, frequency, amplitude, lacunarity, persistence)

fbm(pos, octaves, frequency, amplitude, lacunarity, persistence) ==
    fbmLoop(0, octaves, pos, 0, frequency, amplitude, lacunarity, persistence)

\* rounding toward zero instead of floor()
snapTrunc(c, seg) == IF c >= 0 THEN (c \div seg) * seg ELSE 0 - (((0 - c) \div seg) * seg)

\* rounding to the nearest cell instead of floor()
snapRound(c, seg) == FloorDiv(2 * c + seg, 2 * seg) * seg

\* uCameraPosition.x.div(uSegmentSize).floor().mul(uSegmentSize)
snap(c, seg) == FloorDiv(c, seg) * seg

\* worldOffset = vec3(snapX, 0.0, snapZ)
worldOffset(u) ==
    << snap(u.uCameraPosition[1], u.uSegmentSize), 0,
       snap(u.uCameraPosition[3], u.uSegmentSize) >>

\* |p.xz - cam.xz|, in 1/100
distXZ(p, cam) ==
    ISqrt((p[1] - cam[1]) * (p[1] - cam[1]) + (p[3] - cam[3]) * (p[3] - cam[3]))

\* the drop without the curvature strength
horizonDropNoCurve(dist, u) ==
    LET nd  == FloorDiv(dist * 100, u.uHorizonDist)
        nd2 == FloorDiv(nd * nd, 10000)
    IN  FloorDiv(nd2 * nd2, 10000)

\* normalizedDist.pow(4.0).mul(uHorizonCurve).mul(100.0), in 1/100
horizonDrop(dist, u) ==
    LET nd  == FloorDiv(dist * 100, u.uHorizonDist)      \* in 1/10000
        nd2 == FloorDiv(nd * nd, 10000)
        nd4 == FloorDiv(nd2 * nd2, 10000)
    IN  FloorDiv(nd4 * u.uHorizonCurve, 100)

worldPosOf(localPos, u) ==
    LET off == worldOffset(u)
    IN  <<localPos[1] + off[1], localPos[2] + off[2], localPos[3] + off[3]>>

rawHeight(worldPos, u) ==
    (fbm(worldPos, u.octaves, u.frequency, u.amplitude, u.lacunarity, u.persistence)
        + u.heightOffset) * u.heightScale

\* the kernel without the water-floor clamp
computeWorkerNoClamp(localPos, u) ==
    LET worldPos == worldPosOf(localPos, u)
        drop == horizonDrop(distXZ(worldPos, u.uCameraPosition), u)
    IN  <<worldPos[1], rawHeight(worldPos, u) - drop, worldPos[3]>>

\* the kernel sampling the noise at the grid-local position
computeWorkerLocalNoise(localPos, u) ==
    LET worldPos == worldPosOf(localPos, u)
        drop == horizonDrop(distXZ(worldPos, u.uCameraPosition), u)
        curvedHeight == rawHeight(localPos, u) - drop
        curvedWaterFloor == u.waterFloor - drop
        finalHeight == Max(curvedHeight, curvedWaterFloor)
    IN  <<worldPos[1], finalHeight, worldPos[3]>>

\* One worker of computeUpdate: the value assigned to positionBuffer.element(index).
computeWorker(localPos, u) ==
    LET worldPos == worldPosOf(localPos, u)
        drop == horizonDrop(distXZ(worldPos, u.uCameraPosition), u)
        curvedHeight == rawHeight(worldPos, u) - drop
        curvedWaterFloor == u.waterFloor - drop
        finalHeight == Max(curvedHeight, curvedWaterFloor)
    IN  <<worldPos[1], finalHeight, worldPos[3]>>

----------------------------------------------------------------------------
(* The colour stage: material.colorNode and applyRetroEffects *)

\* smoothstep(edge0, edge1, x) = t * t * (3 - 2 t), t = clamp((x - edge0) /
\* (edge1 - edge0), 0, 1); result in 1/100; edge0 # edge1.  With edge0 > edge1
\* the formula is a falling ramp (the shadow's heightFade).
smoothstep(edge0, edge1, x) ==
    LET t == Clamp(FloorDiv((x - edge0) * 100, edge1 - edge0), 0, 100)
    IN  FloorDiv(t * t * (300 - 2 * t), 10000)

mix1(a, b, t) == FloorDiv(a * (100 - t) + b * t, 100)

\* mix(a, b, t) on rgb, t in 1/100
mix(a, b, t) == <<mix1(a[1], b[1], t), mix1(a[2], b[2], t), mix1(a[3], b[3], t)>>

\* texture(this.textures.<name>, uv): the assets are opaque inputs; each is
\* modelled as one flat colour (alpha for the shadow decal, in 1/100).
texture(name) ==
    CASE name = "water" -> <<1920, 5760, 13440, 100>>
      [] name = "sand"  -> <<14400, 12480, 7680, 100>>
      [] name = "grass" -> <<3840, 11520, 2880, 100>>
      [] name = "rock"  -> <<9600, 9600, 9600, 100>>
      [] name = "airshipShadow" -> <<0, 0, 0, 100>>

\* bayerMatrixNodes, numerators over 64, row-major
bayerMatrixNodes ==
    << 0, 48, 12, 60,  3, 51, 15, 63,
      32, 16, 44, 28, 35, 19, 47, 31,
       8, 56,  4, 52, 11, 59,  7, 55,
      40, 24, 36, 20, 43, 27, 39, 23,
       2, 50, 14, 62,  1, 49, 13, 61,
      34, 18, 46, 30, 33, 17, 45, 29,
      10, 58,  6, 54,  9, 57,  5, 53,
      42, 26, 38, 22, 41, 25, 37, 21 >>

\* threshold numerator at pixel <<px, py>>: index = (py mod 8) * 8 + (px mod 8)
bayerAt(pixel) ==
    bayerMatrixNodes[(pixel[2] % BayerSize) * BayerSize + (pixel[1] % BayerSize) + 1]

\* the dither centred on 0.5 instead of 0.8
retroChannelCentered(c, m, colorNumArg) ==
    LET dithered == c + 3 * (60 * m - 1920)
        levels == colorNumArg - 1
        q == FloorDiv(dithered * levels + ColorUnit \div 2, ColorUnit)
    IN  FloorDiv(q * ColorUnit, levels)

\* One channel of applyRetroEffects.  (threshold - 0.8) * 0.6 with threshold
\* m/64 is (60 m - 3072) / 6400, i.e. 3 * (60 m - 3072) colour units.
retroChannel(c, m, colorNumArg) ==
    LET dithered == c + 3 * (60 * m - 3072)
        levels == colorNumArg - 1
        q == FloorDiv(dithered * levels + ColorUnit \div 2, ColorUnit)
    IN  FloorDiv(q * ColorUnit, levels)

applyRetroEffects(inputColor, colorNumArg, pixel) ==
    LET m == bayerAt(pixel)
    IN  << retroChannel(inputColor[1], m, colorNumArg),
           retroChannel(inputColor[2], m, colorNumArg),
           retroChannel(inputColor[3], m, colorNumArg) >>

\* sin and cos of uShadowRotation, which the model keeps to quarter turns
sinQ(a) == <<0, 1, 0, -1>>[(a % 4) + 1]
cosQ(a) == <<1, 0, -1, 0>>[(a % 4) + 1]

\* the shadow factor without the opacity
shadowCalcNoOpacity(pos, u) ==
    LET relX == pos[1] - u.uShadowPosition[1]
        relY == pos[3] - u.uShadowPosition[3]
        s == sinQ(u.uShadowRotation)
        c == cosQ(u.uShadowRotation)
        rotatedX == relX * c - relY * s
        rotatedZ == relX * s + relY * c
        rotX == rotatedX
        rotY == rotatedZ + u.uShadowOffset
        sCurveDrop == horizonDrop(distXZ(pos, u.uCameraPosition), u)
        hShadow == pos[2] + sCurveDrop
        shipHeight == u.uShadowPosition[2] - hShadow
        shadowScale == Max(FloorDiv(shipHeight, 10) + 100, 10)
        finalShadowSize == Max(FloorDiv(u.uShadowRadius * 2 * shadowScale, 100), 10)
        isInBounds == /\ 2 * rotX + finalShadowSize > 0
                      /\ 2 * rotX < finalShadowSize
                      /\ 2 * rotY + finalShadowSize > 0
                      /\ 2 * rotY < finalShadowSize
        shadowAlpha == IF isInBounds THEN texture("airshipShadow")[4] ELSE 0
        heightFade == smoothstep(3500, 200, shipHeight)
    IN  [ rotX |-> rotX, rotY |-> rotY, shipHeight |-> shipHeight,
          shadowScale |-> shadowScale, finalShadowSize |-> finalShadowSize,
          shadowAlpha |-> shadowAlpha, heightFade |-> heightFade,
          finalShadowFactor |->
              Clamp(FloorDiv(shadowAlpha * heightFade, 100),
                    0, 100) ]

\* the decal sampled without the bounds check, as the repeat wrap mode tiles it
shadowCalcTiled(pos, u) ==
    LET relX == pos[1] - u.uShadowPosition[1]
        relY == pos[3] - u.uShadowPosition[3]
        s == sinQ(u.uShadowRotation)
        c == cosQ(u.uShadowRotation)
        rotatedX == relX * c - relY * s
        rotatedZ == relX * s + relY * c
        rotX == rotatedX
        rotY == rotatedZ + u.uShadowOffset
        sCurveDrop == horizonDrop(distXZ(pos, u.uCameraPosition), u)
        hShadow == pos[2] + sCurveDrop
        shipHeight == u.uShadowPosition[2] - hShadow
        shadowScale == Max(FloorDiv(shipHeight, 10) + 100, 10)
        finalShadowSize == Max(FloorDiv(u.uShadowRadius * 2 * shadowScale, 100), 10)
        isInBounds == /\ 2 * rotX + finalShadowSize > 0
                      /\ 2 * rotX < finalShadowSize
                      /\ 2 * rotY + finalShadowSize > 0
                      /\ 2 * rotY < finalShadowSize
        shadowAlpha == texture("airshipShadow")[4]
        heightFade == smoothstep(3500, 200, shipHeight)
    IN  [ rotX |-> rotX, rotY |-> rotY, shipHeight |-> shipHeight,
          shadowScale |-> shadowScale, finalShadowSize |-> finalShadowSize,
          shadowAlpha |-> shadowAlpha, heightFade |-> heightFade,
          finalShadowFactor |->
              Clamp(FloorDiv(FloorDiv(shadowAlpha * u.uShadowOpacity, 100) * heightFade, 100),
                    0, 100) ]

\* the shadow size without its floor of 0.1
shadowCalcNoFloor(pos, u) ==
    LET relX == pos[1] - u.uShadowPosition[1]
        relY == pos[3] - u.uShadowPosition[3]
        s == sinQ(u.uShadowRotation)
        c == cosQ(u.uShadowRotation)
        rotatedX == relX * c - relY * s
        rotatedZ == relX * s + relY * c
        rotX == rotatedX
        rotY == rotatedZ + u.uShadowOffset
        sCurveDrop == horizonDrop(distXZ(pos, u.uCameraPosition), u)
        hShadow == pos[2] + sCurveDrop
        shipHeight == u.uShadowPosition[2] - hShadow
        shadowScale == Max(FloorDiv(shipHeight, 10) + 100, 10)
        finalShadowSize == FloorDiv(u.uShadowRadius * 2 * shadowScale, 100)
        isInBounds == /\ 2 * rotX + finalShadowSize > 0
                      /\ 2 * rotX < finalShadowSize
                      /\ 2 * rotY + finalShadowSize > 0
                      /\ 2 * rotY < finalShadowSize
        shadowAlpha == IF isInBounds THEN texture("airshipShadow")[4] ELSE 0
        heightFade == smoothstep(3500, 200, shipHeight)
    IN  [ rotX |-> rotX, rotY |-> rotY, shipHeight |-> shipHeight,
          shadowScale |-> shadowScale, finalShadowSize |-> finalShadowSize,
          shadowAlpha |-> shadowAlpha, heightFade |-> heightFade,
          finalShadowFactor |->
              Clamp(FloorDiv(FloorDiv(shadowAlpha * u.uShadowOpacity, 100) * heightFade, 100),
                    0, 100) ]

\* The shadow calculation of colorNode (lines 403-444) at world position pos:
\* every intermediate value, lengths in 1/100, factors in 1/100.
\* shadowUV = rotatedPos / finalShadowSize + 0.5 is kept as the pair of
\* numerators rotX, rotY over finalShadowSize; 0 < uv < 1 is then
\* -size < 2 * rot < size.
shadowCalc(pos, u) ==
    LET relX == pos[1] - u.uShadowPosition[1]
        relY == pos[3] - u.uShadowPosition[3]
        s == sinQ(u.uShadowRotation)
        c == cosQ(u.uShadowRotation)
        rotatedX == relX * c - relY * s
        rotatedZ == relX * s + relY * c
        rotX == rotatedX
        rotY == rotatedZ + u.uShadowOffset
        sCurveDrop == horizonDrop(distXZ(pos, u.uCameraPosition), u)
        hShadow == pos[2] + sCurveDrop
        shipHeight == u.uShadowPosition[2] - hShadow
        shadowScale == Max(FloorDiv(shipHeight, 10) + 100, 10)
        finalShadowSize == Max(FloorDiv(u.uShadowRadius * 2 * shadowScale, 100), 10)
        isInBounds == /\ 2 * rotX + finalShadowSize > 0
                      /\ 2 * rotX < finalShadowSize
                      /\ 2 * rotY + finalShadowSize > 0
                      /\ 2 * rotY < finalShadowSize
        shadowAlpha == IF isInBounds THEN texture("airshipShadow")[4] ELSE 0
        heightFade == smoothstep(3500, 200, shipHeight)
    IN  [ rotX |-> rotX, rotY |-> rotY, shipHeight |-> shipHeight,
          shadowScale |-> shadowScale, finalShadowSize |-> finalShadowSize,
          shadowAlpha |-> shadowAlpha, heightFade |-> heightFade,
          finalShadowFactor |->
              Clamp(FloorDiv(FloorDiv(shadowAlpha * u.uShadowOpacity, 100) * heightFade, 100),
                    0, 100) ]

\* finalShadowFactor of colorNode at world position pos, in 1/100
shadowFactor(pos, u) == shadowCalc(pos, u).finalShadowFactor

darken(col, f) ==
    <<FloorDiv(col[1] * (100 - f), 100), FloorDiv(col[2] * (100 - f), 100),
      FloorDiv(col[3] * (100 - f), 100)>>

\* the four texture samples of a fragment (lines 387-390)
textureSamples ==
    [ water |-> texture("water"), sand |-> texture("sand"),
      grass |-> texture("grass"), rock |-> texture("rock") ]

\* the blend with the start and end thresholds of every ramp exchanged
biomeBlendSwappedEdges(t, h, u) ==
    LET rSand == smoothstep(u.uSandEnd, u.uSandStart, h)
        rGrass == smoothstep(u.uGrassEnd, u.uGrassStart, h)
        rRock == smoothstep(u.uRockEnd, u.uRockStart, h)
        c1 == mix(t.water, t.sand, rSand)
        c2 == mix(c1, t.grass, rGrass)
        c3 == mix(c2, t.rock, rRock)
    IN  [ rSand |-> rSand, rGrass |-> rGrass, rRock |-> rRock,
          sand |-> c1, grass |-> c2, rock |-> c3 ]

\* the blend with rock composited before sand and grass
biomeBlendRockFirst(t, h, u) ==
    LET rSand == smoothstep(u.uSandStart, u.uSandEnd, h)
        rGrass == smoothstep(u.uGrassStart, u.uGrassEnd, h)
        rRock == smoothstep(u.uRockStart, u.uRockEnd, h)
        c0 == mix(t.water, t.rock, rRock)
        c1 == mix(c0, t.sand, rSand)
        c2 == mix(c1, t.grass, rGrass)
    IN  [ rSand |-> rSand, rGrass |-> rGrass, rRock |-> rRock,
          sand |-> c1, grass |-> c2, rock |-> c2 ]

\* Lines 392-395: finalColor = tWater, then mix(finalColor, tSand / tGrass /
\* tRock, smoothstep(start, end, h)) in this order.  t holds the samples.
biomeBlend(t, h, u) ==
    LET rSand == smoothstep(u.uSandStart, u.uSandEnd, h)
        rGrass == smoothstep(u.uGrassStart, u.uGrassEnd, h)
        rRock == smoothstep(u.uRockStart, u.uRockEnd, h)
        c1 == mix(t.water, t.sand, rSand)
        c2 == mix(c1, t.grass, rGrass)
        c3 == mix(c2, t.rock, rRock)
    IN  [ rSand |-> rSand, rGrass |-> rGrass, rRock |-> rRock,
          sand |-> c1, grass |-> c2, rock |-> c3 ]

\* the colour stage shading by the curved height, the drop not added back
colorNodeNoDrop(pos, u, pixel) ==
    LET dist == distXZ(pos, u.uCameraPosition)
        h == pos[2]
        c3 == biomeBlend(textureSamples, h, u).rock
        fogFactor == smoothstep(u.uFogNear * 100, u.uFogFar * 100, dist)
        fogged == mix(c3, u.uFogColor, fogFactor)
        retroColor == applyRetroEffects(fogged, colorNum, pixel)
        f == shadowFactor(pos, u)
    IN  [ h |-> h, pixel |-> pixel, retroIn |-> fogged, retroColor |-> retroColor,
          finalShadowFactor |-> f, out |-> darken(retroColor, f) ]

\* material.colorNode at a fragment whose positionWorld is pos.  pixel is
\* int(screenUV * screenSize), the window coordinate the rasteriser gives the
\* fragment: it depends on the camera's projection and the canvas size and
\* is an input of the fragment.
colorNode(pos, u, pixel) ==
    LET dist == distXZ(pos, u.uCameraPosition)
        drop == horizonDrop(dist, u)
        h == pos[2] + drop
        c3 == biomeBlend(textureSamples, h, u).rock
        fogFactor == smoothstep(u.uFogNear * 100, u.uFogFar * 100, dist)
        fogged == mix(c3, u.uFogColor, fogFactor)
        retroColor == applyRetroEffects(fogged, colorNum, pixel)
        f == shadowFactor(pos, u)
    IN  [ h |-> h, pixel |-> pixel, retroIn |-> fogged, retroColor |-> retroColor,
          finalShadowFactor |-> f, out |-> darken(retroColor, f) ]

----------------------------------------------------------------------------
(* Planet.updateControls *)

\* params key -> the uniform its line of updateControls assigns
paramUniform ==
    [ octaves |-> "octaves", frequency |-> "frequency", amplitude |-> "amplitude",
      lacunarity |-> "lacunarity", persistence |-> "persistence",
      heightScale |-> "heightScale", heightOffset |-> "heightOffset",
      waterFloor |-> "waterFloor",
      horizonDistance |-> "uHorizonDist", horizonCurve |-> "uHorizonCurve",
      fogNear |-> "uFogNear", fogFar |-> "uFogFar", fogColor |-> "uFogColor",
      sandStart |-> "uSandStart", sandEnd |-> "uSandEnd",
      grassStart |-> "uGrassStart", grassEnd |-> "uGrassEnd",
      rockStart |-> "uRockStart", rockEnd |-> "uRockEnd",
      shadowRadius |-> "uShadowRadius", shadowOpacity |-> "uShadowOpacity",
      shadowOffset |-> "uShadowOffset" ]

\* the order of the if-statements of updateControls
paramOrder ==
    << "octaves", "frequency", "amplitude", "lacunarity", "persistence",
       "heightScale", "heightOffset", "waterFloor",
       "horizonDistance", "horizonCurve", "fogNear", "fogFar", "fogColor",
       "sandStart", "sandEnd", "grassStart", "grassEnd", "rockStart", "rockEnd",
       "shadowRadius", "shadowOpacity", "shadowOffset" >>

\* A params object: key -> <<>> (the value undefined) or <<v>>; a key outside
\* the DOMAIN is omitted.  params.key !== undefined:
isDefined(params, key) == key \in DOMAIN params /\ params[key] # <<>>

\* SRGBToLinear of three.js for the 256 values of an 8-bit channel, in colour
\* units rounded to the nearest: c / 255 < 0.04045 ? c * 0.0773993808
\* : pow(c * 0.9478672986 + 0.0521327014, 2.4)
SRGBToLinear ==
    <<
       0, 6, 12, 17, 23, 29, 35, 41, 47, 52, 58, 64, 71, 77, 84, 92, 99,
       108, 116, 125, 134, 144, 154, 165, 175, 187, 198, 210, 223, 236,
       249, 263, 277, 292, 307, 323, 339, 355, 372, 390, 407, 426, 445,
       464, 484, 504, 525, 546, 567, 590, 612, 636, 659, 684, 708, 734,
       759, 786, 812, 840, 868, 896, 925, 954, 984, 1015, 1046, 1078,
       1110, 1143, 1176, 1210, 1244, 1279, 1315, 1351, 1388, 1425, 1463,
       1501, 1540, 1580, 1620, 1661, 1702, 1744, 1787, 1830, 1874, 1918,
       1963, 2009, 2055, 2102, 2149, 2197, 2246, 2295, 2345, 2396, 2447,
       2499, 2551, 2604, 2658, 2712, 2767, 2823, 2879, 2936, 2994, 3052,
       3111, 3171, 3231, 3292, 3353, 3415, 3478, 3542, 3606, 3671, 3737,
       3803, 3870, 3938, 4006, 4075, 4145, 4215, 4286, 4358, 4430, 4503,
       4577, 4652, 4727, 4803, 4880, 4957, 5035, 5114, 5194, 5274, 5355,
       5436, 5519, 5602, 5686, 5770, 5856, 5942, 6029, 6116, 6204, 6293,
       6383, 6474, 6565, 6657, 6749, 6843, 6937, 7032, 7128, 7224, 7321,
       7419, 7518, 7618, 7718, 7819, 7921, 8023, 8127, 8231, 8336, 8441,
       8548, 8655, 8763, 8872, 8981, 9092, 9203, 9315, 9428, 9541, 9655,
       9771, 9886, 10003, 10121, 10239, 10358, 10478, 10599, 10720,
       10842, 10966, 11090, 11214, 11340, 11466, 11593, 11722, 11850,
       11980, 12111, 12242, 12374, 12507, 12641, 12775, 12911, 13047,
       13184, 13322, 13461, 13601, 13741, 13883, 14025, 14168, 14312,
       14456, 14602, 14749, 14896, 15044, 15193, 15343, 15493, 15645,
       15797, 15951, 16105, 16260, 16416, 16573, 16730, 16889, 17048,
       17208, 17369, 17531, 17694, 17858, 18023, 18188, 18355, 18522,
       18690, 18859, 19029, 19200
    >>

\* Color.set(value) for uFogColor: the sRGB triple 0..255 of a '#rrggbb'
\* string becomes a linear colour
colorSet(c) ==
    << SRGBToLinear[c[1] + 1], SRGBToLinear[c[2] + 1], SRGBToLinear[c[3] + 1] >>

\* if (params.key !== undefined) this.uniforms.<uniform>.value = params.key;
assignParamWrongTarget(u, params, key) ==
    IF isDefined(params, key)
    THEN IF key = "horizonCurve"
         THEN [u EXCEPT !["uHorizonDist"] = params[key][1]]
         ELSE [u EXCEPT ![paramUniform[key]] = params[key][1]]
    ELSE u

assignParam(u, params, key) ==
    IF isDefined(params, key)
    THEN IF key = "fogColor"
         THEN [u EXCEPT ![paramUniform[key]] = colorSet(params[key][1])]
         ELSE [u EXCEPT ![paramUniform[key]] = params[key][1]]
    ELSE u

RECURSIVE updateFrom(_, _, _)
updateFrom(u, params, n) ==
    IF n > Len(paramOrder) THEN u
    ELSE updateFrom(assignParam(u, params, paramOrder[n]), params, n + 1)

updateControls(u, params) == updateFrom(u, params, 1)

----------------------------------------------------------------------------
(* ThreeEngine.animate: the terrain part of one frame *)

\* renderer.compute(planet.computeUpdate): count workers, worker i reads
\* baseBuffer[i] and assigns positionBuffer[i].
rendererComputeSkipLast(fs) ==
    [fs EXCEPT
        !.position = [i \in Verts |->
                        IF i = Cardinality(Verts) - 1 THEN fs.position[i]
                        ELSE computeWorker(fs.base[i], fs.u)],
        !.passes = Append(@, [pass |-> "compute", u |-> fs.u, camera |-> fs.camera])]

rendererComputeAliased(fs) ==
    LET out == [i \in Verts |-> computeWorker(fs.base[i], fs.u)]
    IN  [fs EXCEPT !.position = out, !.base = out,
                   !.passes = Append(@, [pass |-> "compute", u |-> fs.u, camera |-> fs.camera])]

rendererCompute(fs) ==
    [fs EXCEPT
        !.position = [i \in Verts |-> computeWorker(fs.base[i], fs.u)],
        !.passes = Append(@, [pass |-> "compute", u |-> fs.u, camera |-> fs.camera])]

\* renderer.render(scene, camera): positionNode reads positionBuffer[vertexIndex],
\* colorNode shades; one fragment per vertex is sampled, fs.pixels[i] being
\* the pixel the rasteriser puts the fragment of vertex i on.
rendererRender(fs) ==
    [fs EXCEPT
        !.passes = Append(@, [pass |-> "render", u |-> fs.u, camera |-> fs.camera,
                              position |-> fs.position,
                              frame |-> [i \in Verts |->
                                           colorNode(fs.position[i], fs.u, fs.pixels[i])]])]

\* uCameraPosition.value.copy(camera.position)
copyCamera(fs, cam) == [fs EXCEPT !.u.uCameraPosition = cam, !.camera = cam]

animateRenderFirst(fs, cam) ==
    rendererCompute(rendererRender(copyCamera(fs, cam)))

animateTorn(fs, cam) ==
    LET a == rendererCompute(copyCamera(fs, cam))
        b == [a EXCEPT !.u = updateControls(a.u, [horizonCurve |-> <<0>>, waterFloor |-> <<-100>>])]
    IN  rendererRender(b)

\* lines 153-159 of animate(): copy the camera, compute, render
animateFrame(fs, cam) ==
    rendererRender(rendererCompute(copyCamera(fs, cam)))

----------------------------------------------------------------------------
(* GameState (src/src/engine/GameState.js) *)

\* An options object is a record; an omitted key is outside its DOMAIN.
\* options.key || dflt: the default also replaces 0.
optionOr(options, key, dflt) ==
    IF key \in DOMAIN options /\ options[key] # 0 THEN options[key] ELSE dflt

\* constructor(options = {})
GameState(options) ==
    LET maxHealth == optionOr(options, "maxHealth", 100)
    IN  [ maxHealth |-> maxHealth, health |-> maxHealth, score |-> 0, isGameOver |-> FALSE ]

\* A method's effect: the object after the call and the callbacks it invoked,
\* in order, each with its arguments.

\* takeDamage with the health going below zero
GameState_takeDamageNoClamp(g, amount) ==
    IF g.isGameOver THEN [g |-> g, calls |-> << >>]
    ELSE LET health == g.health - amount
             g1 == [g EXCEPT !.health = health]
             c1 == << <<"onHealthChange", health, g.maxHealth>> >>
         IN  IF health <= 0
             THEN [ g |-> [g1 EXCEPT !.isGameOver = TRUE],
                    calls |-> Append(c1, <<"onGameOver", g.score>>) ]
             ELSE [ g |-> g1, calls |-> c1 ]

\* takeDamage without the early return when the game is over
GameState_takeDamageNoGuard(g, amount) ==
    LET health == Max(0, g.health - amount)
        g1 == [g EXCEPT !.health = health]
        c1 == << <<"onHealthChange", health, g.maxHealth>> >>
    IN  IF health <= 0
        THEN [ g |-> [g1 EXCEPT !.isGameOver = TRUE],
               calls |-> Append(c1, <<"onGameOver", g.score>>) ]
        ELSE [ g |-> g1, calls |-> c1 ]

GameState_takeDamage(g, amount) ==
    IF g.isGameOver THEN [g |-> g, calls |-> << >>]
    ELSE LET health == Max(0, g.health - amount)
             g1 == [g EXCEPT !.health = health]
             c1 == << <<"onHealthChange", health, g.maxHealth>> >>
         IN  IF health <= 0
             THEN [ g |-> [g1 EXCEPT !.isGameOver = TRUE],
                    calls |-> Append(c1, <<"onGameOver", g.score>>) ]
             ELSE [ g |-> g1, calls |-> c1 ]

\* heal without the early return when the game is over
GameState_healNoGuard(g, amount) ==
    LET health == Min(g.maxHealth, g.health + amount)
    IN  [ g |-> [g EXCEPT !.health = health],
          calls |-> << <<"onHealthChange", health, g.maxHealth>> >> ]

GameState_heal(g, amount) ==
    IF g.isGameOver THEN [g |-> g, calls |-> << >>]
    ELSE LET health == Min(g.maxHealth, g.health + amount)
         IN  [ g |-> [g EXCEPT !.health = health],
               calls |-> << <<"onHealthChange", health, g.maxHealth>> >> ]

GameState_addScore(g, amount) ==
    [ g |-> [g EXCEPT !.score = g.score + amount],
      calls |-> << <<"onScoreChange", g.score + amount>> >> ]

GameState_reset(g) ==
    [ g |-> [g EXCEPT !.health = g.maxHealth, !.score = 0, !.isGameOver = FALSE],
      calls |-> << <<"onHealthChange", g.maxHealth, g.maxHealth>>, <<"onScoreChange", 0>> >> ]

\* number of invocations of the callback named name in calls
RECURSIVE countCalls(_, _)
countCalls(calls, name) ==
    IF calls = << >> THEN 0
    ELSE (IF Head(calls)[1] = name THEN 1 ELSE 0) + countCalls(Tail(calls), name)

\* The game variable: the object, its last method call (operation, amount,
\* the object before it, the callbacks it invoked) and the number of
\* onGameOver invocations since construction or the last reset().
gameAfter(gm, op, amount, r) ==
    [ obj |-> r.g,
      last |-> [op |-> op, amount |-> amount, before |-> gm.obj, calls |-> r.calls],
      overs |-> (IF op = "reset" THEN 0 ELSE gm.overs) + countCalls(r.calls, "onGameOver") ]

gameOf(g) ==
    [ obj |-> g, last |-> [op |-> "new", amount |-> 0, before |-> g, calls |-> << >>],
      overs |-> 0 ]

----------------------------------------------------------------------------
(* Enemy (src/unnamed/part_001) and EnemyManager (src/src/engine/Anchor.js, *)
(* lines 175-301).  Times are in milliseconds, the difficulty multiplier in *)
(* 1/100.  An enemy's position is not modelled: what it collides with is an *)
(* input of the frame.                                                      *)

\* new Enemy(scene, position, options); id stands for the random id string
Enemy(id, options) ==
    [ id |-> id, health |-> optionOr(options, "health", 1),
      damage |-> optionOr(options, "damage", 10),
      isDead |-> FALSE, deathTimer |-> 0 ]

\* Enemy.update(delta, playerPos): the enemy after the call and the value
\* returned (ready for disposal)
Enemy_update(e, delta) ==
    IF e.isDead
    THEN [ e |-> [e EXCEPT !.deathTimer = e.deathTimer + delta],
           ready |-> e.deathTimer + delta >= deathDuration ]
    ELSE [ e |-> e, ready |-> FALSE ]

\* takeDamage without the early return for a dead enemy
Enemy_takeDamageNoGuard(e, amount) ==
    LET health == e.health - amount
    IN  IF health <= 0
        THEN [ e |-> [e EXCEPT !.health = health, !.isDead = TRUE], killed |-> TRUE ]
        ELSE [ e |-> [e EXCEPT !.health = health], killed |-> FALSE ]

\* Enemy.takeDamage(amount): the enemy after the call and the value returned
Enemy_takeDamage(e, amount) ==
    IF e.isDead THEN [ e |-> e, killed |-> FALSE ]
    ELSE LET health == e.health - amount
         IN  IF health <= 0
             THEN [ e |-> [e EXCEPT !.health = health, !.isDead = TRUE], killed |-> TRUE ]
             ELSE [ e |-> [e EXCEPT !.health = health], killed |-> FALSE ]

\* constructor(scene, options = {}); nextId numbers the enemies created
EnemyManager(options) ==
    [ spawnRate |-> optionOr(options, "spawnRate", 3000),
      maxEnemies |-> optionOr(options, "maxEnemies", maxEnemiesDefault),
      waveSize |-> optionOr(options, "waveSize", 3),
      difficultyMultiplier |-> 100,
      enemies |-> << >>,
      spawnTimer |-> 2000,
      waveCount |-> 0,
      isActive |-> TRUE,
      nextId |-> 1 ]

\* the for loop of spawnWave: push count new enemies
RECURSIVE pushEnemies(_, _, _)
pushEnemies(enemies, id, count) ==
    IF count <= 0 THEN enemies
    ELSE pushEnemies(Append(enemies, Enemy(id, [health |-> 1, damage |-> 10])),
                     id + 1, count - 1)

\* the wave size without the room left in the list
spawnWaveNoClamp(m) ==
    LET count == m.waveSize + m.waveCount \div 2
    IN  [m EXCEPT !.enemies = pushEnemies(m.enemies, m.nextId, count),
                  !.nextId = m.nextId + Max(count, 0),
                  !.waveCount = m.waveCount + 1,
                  !.difficultyMultiplier = m.difficultyMultiplier + difficultyGrowth]

\* EnemyManager.spawnWave(playerPos)
spawnWave(m) ==
    LET count == Min(m.waveSize + m.waveCount \div 2, m.maxEnemies - Len(m.enemies))
    IN  [m EXCEPT !.enemies = pushEnemies(m.enemies, m.nextId, count),
                  !.nextId = m.nextId + Max(count, 0),
                  !.waveCount = m.waveCount + 1,
                  !.difficultyMultiplier = m.difficultyMultiplier + difficultyGrowth]

\* the update loop counting upwards: indices collected in ascending order
RECURSIVE collectFinishedAscending(_, _, _)
collectFinishedAscending(enemies, delta, i) ==
    IF i < 1 THEN [ enemies |-> enemies, toRemove |-> << >> ]
    ELSE LET rest == collectFinishedAscending(enemies, delta, i - 1)
             r == Enemy_update(enemies[i], delta)
         IN  [ enemies |-> [rest.enemies EXCEPT ![i] = r.e],
               toRemove |-> IF r.ready THEN Append(rest.toRemove, i) ELSE rest.toRemove ]

\* for (let i = this.enemies.length - 1; i >= 0; i--): update enemy i and
\* push i to toRemove when it is ready; called with i = Len(enemies)
\* (indices are 1-based here)
RECURSIVE collectFinished(_, _, _)
collectFinished(enemies, delta, i) ==
    IF i < 1 THEN [ enemies |-> enemies, toRemove |-> << >> ]
    ELSE LET r == Enemy_update(enemies[i], delta)
             rest == collectFinished([enemies EXCEPT ![i] = r.e], delta, i - 1)
         IN  [ enemies |-> rest.enemies,
               toRemove |-> IF r.ready THEN <<i>> \o rest.toRemove ELSE rest.toRemove ]

\* for (const idx of toRemove) { enemies[idx].dispose(); enemies.splice(idx, 1) }:
\* the list left and the ids disposed, in order.  At an idx past the end of
\* the list this.enemies[idx] is undefined and enemy.dispose() throws a
\* TypeError: the loop ends there with the list and the disposals so far.
RECURSIVE removeAll(_, _, _)
removeAll(enemies, toRemove, disposed) ==
    IF toRemove = << >>
    THEN [ enemies |-> enemies, disposed |-> disposed, threw |-> FALSE ]
    ELSE LET idx == Head(toRemove)
         IN  IF idx > Len(enemies)
             THEN [ enemies |-> enemies, disposed |-> disposed, threw |-> TRUE ]
             ELSE removeAll(SubSeq(enemies, 1, idx - 1) \o SubSeq(enemies, idx + 1, Len(enemies)),
                            Tail(toRemove), Append(disposed, enemies[idx].id))

\* EnemyManager.update(delta, playerPos, gameState): the manager after the
\* call, the ids of the enemies disposed and whether the call ended in the
\* TypeError of the removal loop (it is the last statement of update, so the
\* manager is the same either way; the indices update collects are
\* descending, which keeps every idx inside the list)
EnemyManager_update(m, delta) ==
    IF ~m.isActive THEN [ m |-> m, disposed |-> << >>, threw |-> FALSE ]
    ELSE LET timer == m.spawnTimer - delta
             m1 == IF timer <= 0 /\ Len(m.enemies) < m.maxEnemies
                   THEN LET w == spawnWave(m)
                        IN  [w EXCEPT !.spawnTimer = (w.spawnRate * 100) \div w.difficultyMultiplier]
                   ELSE [m EXCEPT !.spawnTimer = timer]
             c == collectFinished(m1.enemies, delta, Len(m1.enemies))
             r == removeAll(c.enemies, c.toRemove, << >>)
         IN  [ m |-> [m1 EXCEPT !.enemies = r.enemies], disposed |-> r.disposed,
               threw |-> r.threw ]

\* getEnemies(): this.enemies.filter(e => !e.isDead), as indices into enemies
RECURSIVE liveIndices(_, _)
liveIndices(enemies, i) ==
    IF i > Len(enemies) THEN << >>
    ELSE (IF enemies[i].isDead THEN << >> ELSE <<i>>) \o liveIndices(enemies, i + 1)

getEnemies(m) == liveIndices(m.enemies, 1)

idsOf(enemies) == [i \in 1 .. Len(enemies) |-> enemies[i].id]

\* EnemyManager.reset()
EnemyManager_reset(m) ==
    [ m |-> [m EXCEPT !.enemies = << >>, !.spawnTimer = 2000, !.waveCount = 0,
                      !.difficultyMultiplier = 100, !.isActive = TRUE],
      disposed |-> idsOf(m.enemies) ]

\* The mgr variable: the object and its last call (operation, delta, the
\* object before it, the ids it disposed) and the number of update calls so
\* far.
mgrAfter(mg, op, delta, r) ==
    [ obj |-> r.m,
      last |-> [op |-> op, delta |-> delta, before |-> mg.obj, disposed |-> r.disposed],
      calls |-> mg.calls + (IF op = "update" THEN 1 ELSE 0) ]

mgrOf(m) ==
    [ obj |-> m, last |-> [op |-> "new", delta |-> 0, before |-> m, disposed |-> << >>],
      calls |-> 0 ]

----------------------------------------------------------------------------
(* AirshipController (src/src/engine/AirshipController.js).  The player's  *)
(* position is in 1/1000 unit, velocities in 1/1000 unit per second, the   *)
(* facing angle in 1/1000 radian, times in ms; the camera position is in   *)
(* 1/100 unit, as the terrain reads it.  The bobbing of the mesh and the   *)
(* camera's orientation (lookAt) are not modelled.                         *)

\* n / d rounded to the nearest integer, d > 0
RoundDiv(n, d) == FloorDiv(n + d \div 2, d)

\* floor(a * b / c) for a, b >= 0 and c > 0, without the product a * b
MulDiv(a, b, c) == (a \div c) * b + ((a % c) * b) \div c

FactorUnit == 10 * 1000
ExpUnit == 80 * 1000
TrigUnit == 10 * 1000

\* the series of Math.exp(t / d) from the term of index k - 1 on, in 1/ExpUnit
RECURSIVE expSeries(_, _, _, _)
expSeries(term, t, d, k) ==
    IF term = 0 THEN 0
    ELSE term + expSeries(MulDiv(term, t, d * k), t, d, k + 1)

\* 1 - Math.exp(-t / d) in 1/FactorUnit, for a time t and a time constant d
\* in ms; from t = 10 d on the factor is 1 at this resolution
lerpFactor(t, d) ==
    IF t <= 0 THEN 0
    ELSE IF t >= 10 * d THEN FactorUnit
    ELSE FactorUnit - RoundDiv(FactorUnit * ExpUnit, expSeries(ExpUnit, t, d, 1))

\* the series of Math.sin (k = 2) and Math.cos (k = 1) of an angle x of at
\* most a quarter turn, in 1/10000 radian, from the term term on: the next
\* term is -term * x^2 / (k (k + 1))
RECURSIVE trigSeries(_, _, _)
trigSeries(term, x, k) ==
    IF term = 0 THEN 0
    ELSE term - trigSeries(MulDiv(MulDiv(term, x, 10000 * k), x, 10000 * (k + 1)), x, k + 2)

sinQuarter(x) == trigSeries(MulDiv(x, TrigUnit, 10000), x, 2)
cosQuarter(x) == trigSeries(TrigUnit, x, 1)

\* Math.sin and Math.cos of an angle in 1/1000 radian, in 1/TrigUnit; the
\* angle is reduced in 1/10000 radian (a turn is 62832, half a turn 31416, a
\* quarter 15708)
sinMilli(a) ==
    LET r == (a * 10) % 62832
    IN  IF r <= 15708 THEN sinQuarter(r)
        ELSE IF r <= 31416 THEN sinQuarter(31416 - r)
        ELSE IF r <= 47124 THEN 0 - sinQuarter(r - 31416)
        ELSE 0 - sinQuarter(62832 - r)

cosMilli(a) ==
    LET r == (a * 10) % 62832
    IN  IF r <= 15708 THEN cosQuarter(r)
        ELSE IF r <= 31416 THEN 0 - cosQuarter(31416 - r)
        ELSE IF r <= 47124 THEN 0 - cosQuarter(r - 31416)
        ELSE cosQuarter(62832 - r)

\* Vector3.lerp on one component: a + (b - a) * factor
lerp(a, b, factor) == a + RoundDiv((b - a) * factor, FactorUnit)

\* constructor(player, camera, options = {}) with the defaults of lines
\* 11-21; the player starts at (0, 10, 0) (ThreeEngine.js line 45)
AirshipController ==
    [ keys |-> [forward |-> FALSE, backward |-> FALSE, left |-> FALSE, right |-> FALSE,
                sprint |-> FALSE, ascend |-> FALSE, descend |-> FALSE],
      position |-> <<0, 10000, 0>>,
      facingAngle |-> 0,
      currentVelocity |-> <<0, 0, 0>> ]

\* handleKey(code, isPressed)
handleKey(c, code, isPressed) ==
    CASE code = "KeyW"      -> [c EXCEPT !.keys.forward = isPressed]
      [] code = "KeyS"      -> [c EXCEPT !.keys.backward = isPressed]
      [] code = "KeyA"      -> [c EXCEPT !.keys.left = isPressed]
      [] code = "KeyD"      -> [c EXCEPT !.keys.right = isPressed]
      [] code = "ShiftLeft" -> [c EXCEPT !.keys.sprint = isPressed]
      [] code = "Space"     -> [c EXCEPT !.keys.ascend = isPressed]
      [] code = "KeyC"      -> [c EXCEPT !.keys.descend = isPressed]
      [] OTHER              -> c

\* lines 71-73: the facing angle after the rotation keys
facingAfter(c, delta) ==
    c.facingAngle + (IF c.keys.left THEN turnSpeed * delta ELSE 0)
                  - (IF c.keys.right THEN turnSpeed * delta ELSE 0)

\* lines 78-86: targetVelocity = facingDirection * moveAmount * speed, the
\* facing direction being (0, 0, -1) turned by angle about the y axis
targetVelocity(c, angle) ==
    LET moveAmount == IF c.keys.backward THEN -1 ELSE IF c.keys.forward THEN 1 ELSE 0
        speed == IF c.keys.sprint THEN baseSpeed * sprintMult ELSE baseSpeed
    IN  << RoundDiv((0 - sinMilli(angle)) * moveAmount * speed * 1000, TrigUnit), 0,
           RoundDiv((0 - cosMilli(angle)) * moveAmount * speed * 1000, TrigUnit) >>

\* lines 89-90: currentVelocity.lerp(targetVelocity, 1 - exp(-delta / smoothTime))
velocityAfter(v, target, delta) ==
    << lerp(v[1], target[1], lerpFactor(delta, smoothTime)),
       lerp(v[2], target[2], lerpFactor(delta, smoothTime)),
       lerp(v[3], target[3], lerpFactor(delta, smoothTime)) >>

\* lines 93-96: the vertical velocity, tested against the height before the move
verticalVel(c) ==
    IF c.keys.ascend /\ c.position[2] < maxHeight THEN verticalSpeed
    ELSE IF c.keys.descend /\ c.position[2] > minHeight THEN 0 - verticalSpeed
    ELSE 0

\* lines 99-101: the position after the move at velocity v
positionAfter(c, v, delta) ==
    << c.position[1] + RoundDiv(v[1] * delta, 1000),
       c.position[2] + verticalVel(c) * delta,
       c.position[3] + RoundDiv(v[3] * delta, 1000) >>

\* lines 111-112: cameraTargetPos = player.position + camOffset turned by
\* angle about the y axis, in 1/100 unit
cameraTargetPos(pos, angle) ==
    << RoundDiv(pos[1] + RoundDiv(camOffset[1] * cosMilli(angle) + camOffset[3] * sinMilli(angle), TrigUnit \div 1000), 10),
       RoundDiv(pos[2] + camOffset[2] * 1000, 10),
       RoundDiv(pos[3] + RoundDiv(camOffset[3] * cosMilli(angle) - camOffset[1] * sinMilli(angle), TrigUnit \div 1000), 10) >>

\* lines 115-116: camera.position.lerp(cameraTargetPos, 1 - exp(-delta * 10))
cameraAfter(cam, target, delta) ==
    << lerp(cam[1], target[1], lerpFactor(delta, 100)),
       lerp(cam[2], target[2], lerpFactor(delta, 100)),
       lerp(cam[3], target[3], lerpFactor(delta, 100)) >>

\* the end of update: the controller and the camera it holds
updateMoved(c, cam, delta, angle, v) ==
    [ c |-> [c EXCEPT !.facingAngle = angle, !.currentVelocity = v,
                      !.position = positionAfter(c, v, delta)],
      camera |-> cameraAfter(cam, cameraTargetPos(positionAfter(c, v, delta), angle), delta) ]

updateTurned(c, cam, delta, angle) ==
    updateMoved(c, cam, delta, angle,
                velocityAfter(c.currentVelocity, targetVelocity(c, angle), delta))

\* update(delta), lines 68-125, cam being the position of this.camera
AirshipController_update(c, cam, delta) ==
    updateTurned(c, cam, delta, facingAfter(c, delta))

----------------------------------------------------------------------------
(* ThreeEngine (src/src/engine/ThreeEngine.js): life cycle and the frame.   *)
(* A frame moves the camera (lines 114-121), runs the enemy system (lines   *)
(* 123-151) and the terrain passes (lines 153-159, animateFrame above).     *)

\* The engine after the constructor: damageCooldown = 0, isInitialized =
\* false, controls.enabled = false, init() called and suspended at await
\* renderer.init(); clockRunning is the running field of this.clock, a
\* THREE.Clock that starts at its first getDelta().  pending is
\* the set of requestAnimationFrame ids scheduled and neither run nor
\* cancelled; frames, sinceDamage (ms of frame time since the last ram damage,
\* -1 for none since the start or restart), scored (ids of the enemies that
\* were worth 100 points) and last (the last call: its delta, the number of
\* anchor hits and of enemies touching the player, the takeDamage calls of
\* the ram loop, whether compute and render were issued) are history.
ThreeEngine ==
    [ isInitialized |-> FALSE, initPending |-> TRUE, animationId |-> 0, pending |-> {},
      controlsEnabled |-> FALSE, clockRunning |-> FALSE,
      disposed |-> FALSE, damageCooldown |-> 0, frames |-> 0, sinceDamage |-> -1,
      scored |-> << >>,
      last |-> [op |-> "new", delta |-> 0, hits |-> 0, touching |-> 0, ramCalls |-> 0, gpu |-> FALSE] ]

\* the GameState callbacks of lines 58-69: onGameOver stops the manager
onCallbacks(m, calls) ==
    IF countCalls(calls, "onGameOver") > 0 THEN [m EXCEPT !.isActive = FALSE] ELSE m

\* for (const enemy of hits) { killed = enemy.takeDamage(1);
\*                             if (killed) gameState.addScore(100) }
\* hits holds indices into enemies
RECURSIVE anchorHits(_, _, _, _, _)
anchorHits(enemies, g, hits, calls, scored) ==
    IF hits = << >> THEN [ enemies |-> enemies, g |-> g, calls |-> calls, scored |-> scored ]
    ELSE LET i == Head(hits)
             r == Enemy_takeDamage(enemies[i], 1)
             a == IF r.killed THEN GameState_addScore(g, 100) ELSE [g |-> g, calls |-> << >>]
         IN  anchorHits([enemies EXCEPT ![i] = r.e], a.g, Tail(hits), calls \o a.calls,
                        IF r.killed THEN Append(scored, enemies[i].id) ELSE scored)

\* for (const enemy of enemies) if (enemy.checkCollision(player.position, 0.3))
\*     { gameState.takeDamage(enemy.damage); damageCooldown = 1.0; break }
\* live is the getEnemies() array (indices into enemies), rams the positions
\* in it whose enemy touches the player; called with k = 1
RECURSIVE ramLoop(_, _, _, _, _)
ramLoop(enemies, live, rams, g, k) ==
    IF k > Len(live) THEN [ g |-> g, calls |-> << >>, ramCalls |-> 0 ]
    ELSE IF k \in rams
         THEN LET r == GameState_takeDamage(g, enemies[live[k]].damage)
              IN  [ g |-> r.g, calls |-> r.calls, ramCalls |-> 1 ]
         ELSE ramLoop(enemies, live, rams, g, k + 1)

\* the hits the anchor reports: positions of the pattern that exist in live
hitsOf(hitPattern, live) ==
    LET there == SelectSeq(hitPattern, LAMBDA k : k <= Len(live))
    IN  [n \in 1 .. Len(there) |-> live[there[n]]]

\* the ram step without the cooldown test
ramDamageNoCooldown(enemies, live, rams, g, cd) ==
    ramLoop(enemies, live, rams, g, 1)

\* if (this.damageCooldown <= 0) { the ram loop }, cd being the cooldown
\* lowered by the frame's delta
ramDamage(enemies, live, rams, g, cd) ==
    IF cd <= 0 THEN ramLoop(enemies, live, rams, g, 1)
    ELSE [ g |-> g, calls |-> << >>, ramCalls |-> 0 ]

\* the end of the enemy system block: the objects it leaves and what it did (u the
\* manager's update, h the anchor loop, r the ram step)
gameHalfDone(u, h, r, cd, hits, touching) ==
    [ g |-> r.g,
      m |-> onCallbacks([u.m EXCEPT !.enemies = h.enemies], h.calls \o r.calls),
      cooldown |-> IF r.ramCalls > 0 THEN damageCooldownTime ELSE cd,
      calls |-> h.calls \o r.calls, disposed |-> u.disposed,
      scored |-> h.scored, ramCalls |-> r.ramCalls,
      hits |-> hits, touching |-> touching, threw |-> FALSE ]

\* lines 140-150: this.damageCooldown = Math.max(0, this.damageCooldown - delta)
\* and the ram step
gameHalfRam(u, live, h, cd, ramPattern, hits) ==
    gameHalfDone(u, h, ramDamage(h.enemies, live, ramPattern, h.g, cd), cd, hits,
                 Cardinality({k \in ramPattern : k <= Len(live)}))

\* lines 129-138: the anchor's hits on the enemies of getEnemies()
gameHalfHits(u, live, g, cooldown, delta, hits, ramPattern) ==
    gameHalfRam(u, live, anchorHits(u.m.enemies, g, hits, << >>, << >>),
                Max(0, cooldown - delta), ramPattern, Len(hits))

\* the enemy system of a frame whose manager update u ended in an exception:
\* nothing after line 125 runs
gameHalfThrew(u, g, cooldown) ==
    [ g |-> g, m |-> u.m, cooldown |-> cooldown, calls |-> << >>, disposed |-> u.disposed,
      scored |-> << >>, ramCalls |-> 0, hits |-> 0, touching |-> 0, threw |-> TRUE ]

\* line 127: const enemies = this.enemyManager.getEnemies()
gameHalfLive(u, live, g, cooldown, delta, hitPattern, ramPattern) ==
    IF u.threw THEN gameHalfThrew(u, g, cooldown)
    ELSE gameHalfHits(u, live, g, cooldown, delta, hitsOf(hitPattern, live), ramPattern)

\* lines 124-151, entered when the game is not over: the manager's update,
\* the anchor's hits, the ram damage behind the cooldown
gameHalf(g, m, cooldown, delta, hitPattern, ramPattern) ==
    gameHalfLive(EnemyManager_update(m, delta),
                 getEnemies(EnemyManager_update(m, delta).m),
                 g, cooldown, delta, hitPattern, ramPattern)

\* a frame in which the game is over: the enemy system is skipped
gameHalfSkipped(w) ==
    [ g |-> w.game.obj, m |-> w.mgr.obj, cooldown |-> w.engine.damageCooldown,
      calls |-> << >>, disposed |-> << >>, scored |-> << >>, ramCalls |-> 0,
      hits |-> 0, touching |-> 0, threw |-> FALSE ]

\* frame time since the last ram damage, capped at the cooldown time
sinceAfter(since, delta, ramCalls) ==
    IF ramCalls > 0 THEN 0
    ELSE IF since < 0 THEN -1
    ELSE Min(since + delta, damageCooldownTime)

\* lines 114-121: controls.update() in debug mode, where orbit is the
\* position OrbitControls leaves the camera at, and controller.update(delta)
\* otherwise
frameCamera(w, delta, orbit) ==
    IF w.engine.controlsEnabled THEN [ c |-> w.controller, camera |-> orbit ]
    ELSE AirshipController_update(w.controller, w.camera, delta)

\* lines 153-159 with the camera at cam; a frame that ended in the manager's
\* exception issues no pass
frameTerrain(w, cam, pixels, threw) ==
    IF threw
    THEN [ u |-> w.uniforms, base |-> w.base, position |-> w.position, camera |-> cam,
           pixels |-> pixels, passes |-> w.gpu ]
    ELSE animateFrame([ u |-> w.uniforms, base |-> w.base, position |-> w.position,
                        camera |-> cam, pixels |-> pixels, passes |-> << >> ], cam)

\* the frame's effect on the world: id is the animation frame requested at
\* line 111, mv the camera step, f the enemy system's result, fs the terrain
\* passes
animateDone(w, delta, id, run, mv, f, fs) ==
    [ game |-> IF run THEN gameAfter(w.game, "animate", 0, f) ELSE w.game,
      mgr |-> IF run THEN mgrAfter(w.mgr, "update", delta, f) ELSE w.mgr,
      engine |-> [w.engine EXCEPT
                    !.animationId = id,
                    !.pending = @ \cup {id},
                    !.damageCooldown = f.cooldown,
                    !.frames = id,
                    !.sinceDamage = sinceAfter(@, delta, f.ramCalls),
                    !.scored = @ \o f.scored,
                    !.last = [op |-> "animate", delta |-> delta, hits |-> f.hits,
                              touching |-> f.touching,
                              ramCalls |-> f.ramCalls, gpu |-> ~f.threw]],
      controller |-> mv.c,
      camera |-> mv.camera,
      uniforms |-> fs.u,
      base |-> fs.base,
      position |-> fs.position,
      gpu |-> fs.passes ]

animateGame(w, in, run, mv, f) ==
    animateDone(w, in.delta, w.engine.frames + 1, run, mv, f,
                frameTerrain(w, mv.camera, in.pixels, f.threw))

animateMoved(w, in, mv) ==
    animateGame(w, in, ~w.game.obj.isGameOver, mv,
                IF ~w.game.obj.isGameOver
                THEN gameHalf(w.game.obj, w.mgr.obj, w.engine.damageCooldown, in.delta,
                              in.hitPattern, in.ramPattern)
                ELSE gameHalfSkipped(w))

\* line 110: this.clock.getDelta(), elapsed being the time since the clock's
\* last reading.  The first call finds the clock stopped, starts it and
\* returns 0.
getDelta(e, elapsed) == IF e.clockRunning THEN elapsed ELSE 0

\* lines 113-160 of a frame whose delta the clock has given
animateTimed(w, in) ==
    animateMoved(w, in, frameCamera(w, in.delta, in.orbit))

\* animate(): w holds the variables a frame works on, in the frame's inputs:
\* the time elapsed on the clock (delta), the enemies the anchor and the
\* player touch, the orbit camera and the fragments' pixels.  Whether the
\* compute and render calls were issued is recorded in last.gpu.  A call
\* that returns at line 109 does not read the clock.
animate(w, in) ==
    IF ~w.engine.isInitialized
    THEN [w EXCEPT !.engine.last = [op |-> "animate", delta |-> 0, hits |-> 0,
                                    touching |-> 0, ramCalls |-> 0, gpu |-> FALSE]]
    ELSE animateTimed([w EXCEPT !.engine.clockRunning = TRUE],
                      [in EXCEPT !.delta = getDelta(w.engine, in.delta)])

\* init() after await renderer.init(): isInitialized = true; animate()
initResolved(w, in) ==
    animate([w EXCEPT !.engine.initPending = FALSE, !.engine.isInitialized = TRUE], in)

\* the browser runs the animation frame callback id
animationFrame(w, id, in) ==
    animate([w EXCEPT !.engine.pending = @ \ {id}], in)

\* ThreeEngine.updateControls(controls), lines 162-177: controls.enabled =
\* controls.debug || false; planet.updateControls(controls).  The cube and
\* the light it also sets are not modelled: colorNode does not read them.
engineUpdateControls(w, params) ==
    [w EXCEPT !.engine.controlsEnabled =
                  IF isDefined(params, "debug") THEN params["debug"][1] ELSE FALSE,
              !.uniforms = updateControls(w.uniforms, params)]

\* EnemyManager.dispose()
EnemyManager_dispose(m) ==
    [ m |-> [m EXCEPT !.enemies = << >>], disposed |-> idsOf(m.enemies) ]

\* dispose(): isInitialized = false; cancelAnimationFrame(animationId);
\* the manager, the planet and the renderer are disposed
dispose(w) ==
    [w EXCEPT !.mgr = mgrAfter(w.mgr, "dispose", 0, EnemyManager_dispose(w.mgr.obj)),
              !.engine = [w.engine EXCEPT
                            !.isInitialized = FALSE,
                            !.pending = IF w.engine.animationId # 0
                                        THEN @ \ {w.engine.animationId} ELSE @,
                            !.disposed = TRUE,
                            !.last = [op |-> "dispose", delta |-> 0, hits |-> 0, touching |-> 0, ramCalls |-> 0, gpu |-> FALSE]]]

\* restart(): gameState.reset(); enemyManager.reset(); damageCooldown = 0;
\* the player and the camera are put back
restart(w) ==
    [w EXCEPT !.game = gameAfter(w.game, "reset", 0, GameState_reset(w.game.obj)),
              !.mgr = mgrAfter(w.mgr, "reset", 0, EnemyManager_reset(w.mgr.obj)),
              !.engine = [w.engine EXCEPT
                            !.damageCooldown = 0,
                            !.sinceDamage = -1,
                            !.last = [op |-> "restart", delta |-> 0, hits |-> 0, touching |-> 0, ramCalls |-> 0, gpu |-> FALSE]],
              !.controller.position = <<0, 10000, 0>>,
              !.camera = <<0, 1500, 1000>>]

----------------------------------------------------------------------------
(* Inputs *)

CamCoords == { c * uSegmentSize + o : c \in (0 - MaxCamCell) .. MaxCamCell,
                                       o \in {0, 1, uSegmentSize - 1} }

\* camera.position after controls.update() in debug mode, where the user
\* moves the camera with OrbitControls
CamPositions == { <<x, 1500, 1000>> : x \in CamCoords }
                \cup { <<0, 1500, z>> : z \in CamCoords }

\* the pixels the rasteriser puts the fragments of the vertices on: a and b
\* stand for the camera's projection and the canvas size
pixelMap(a, b) ==
    [i \in Verts |-> << (i * a + b) % (MaxPixel + 1), (i * b + a) % (MaxPixel + 1) >>]

PixelMaps == { pixelMap(1, 0), pixelMap(3, 5) }

\* params objects the frame-loop specification passes to updateControls
FrameParams ==
    { [debug |-> <<TRUE>>, horizonCurve |-> <<0>>],
      [debug |-> <<TRUE>>, heightOffset |-> <<-100>>, waterFloor |-> <<-100>>],
      [debug |-> <<TRUE>>, shadowOpacity |-> <<0>>, octaves |-> <<>>],
      [debug |-> <<TRUE>>, octaves |-> <<1>>, horizonDistance |-> <<10>>] }

\* two candidate values per params key
paramValues ==
    [ octaves |-> {1, 3}, frequency |-> {1, 500}, amplitude |-> {10, 500},
      lacunarity |-> {10, 40}, persistence |-> {10, 100},
      heightScale |-> {1, 100}, heightOffset |-> {-100, 100},
      waterFloor |-> {-2000, 0},
      horizonDistance |-> {10, 200}, horizonCurve |-> {0, 50},
      fogNear |-> {0, 500}, fogFar |-> {1, 500},
      fogColor |-> {<<10, 200, 64>>, <<128, 128, 128>>},
      sandStart |-> {-1000, 1000}, sandEnd |-> {-500, 1500},
      grassStart |-> {-500, 1500}, grassEnd |-> {0, 2000},
      rockStart |-> {0, 3000}, rockEnd |-> {500, 5000},
      shadowRadius |-> {0, 100}, shadowOpacity |-> {0, 100},
      shadowOffset |-> {-100, 100} ]

\* params objects of the controls specification: empty, one key undefined,
\* one key with a value, one key with a value beside an undefined one, and
\* the full object the sliders produce
ControlParams ==
    { << >>, [octaves |-> << >>] }
    \cup { [x \in {k, "waterFloor"} |->
               IF x = k THEN <<CHOOSE v \in paramValues[k] : TRUE>> ELSE << >>] :
           k \in DOMAIN paramUniform \ {"waterFloor"} }
    \cup UNION { { [x \in {k} |-> <<v>>] : v \in paramValues[k] } : k \in DOMAIN paramUniform }
    \cup { [k \in DOMAIN paramUniform |-> <<CHOOSE v \in paramValues[k] : TRUE>>] }

----------------------------------------------------------------------------
(* State machine *)

NoRetro == [applied |-> FALSE, in |-> <<0, 0, 0>>, pixel |-> <<0, 0>>, out |-> <<0, 0, 0>>]

NoCall == [called |-> FALSE, params |-> << >>, before |-> << >>]

NoShade == [done |-> FALSE, pos |-> <<0, 0, 0>>, frag |-> << >>, shadow |-> << >>]

NoBiome == [done |-> FALSE, h |-> 0, t |-> << >>, out |-> << >>]

NoNoise == [done |-> FALSE, pos |-> <<0, 0, 0>>, octaves |-> 0, frequency |-> 0,
            amplitude |-> 0, lacunarity |-> 0, persistence |-> 0, out |-> 0]

\* The game objects after new ThreeEngine(container): GameState and
\* EnemyManager with their defaults, the engine waiting for renderer.init()
Constructed ==
    /\ game = gameOf(GameState(<< >>))
    /\ mgr = mgrOf(EnemyManager(<< >>))
    /\ engine = ThreeEngine
    /\ controller = AirshipController

TerrainConstructed ==
    /\ uniforms = setupUniforms
    /\ camera = <<0, 1500, 1000>>
    /\ base = setupGeometry
    /\ position = setupGeometry
    /\ gpu = << >>
    /\ ctl = NoCall
    /\ updates = 0
    /\ retro = NoRetro
    /\ shade = NoShade
    /\ biome = NoBiome
    /\ noise = NoNoise

Init ==
    /\ TerrainConstructed
    /\ Constructed

\* The variables a handler of the engine works on
world ==
    [ game |-> game, mgr |-> mgr, engine |-> engine, controller |-> controller,
      camera |-> camera, uniforms |-> uniforms, base |-> base, position |-> position,
      gpu |-> gpu ]

\* the step that leaves these variables as w holds them
Becomes(w) ==
    /\ game' = w.game
    /\ mgr' = w.mgr
    /\ engine' = w.engine
    /\ controller' = w.controller
    /\ camera' = w.camera
    /\ uniforms' = w.uniforms
    /\ base' = w.base
    /\ position' = w.position
    /\ gpu' = w.gpu

\* the position OrbitControls can leave the camera at in this frame
OrbitPositions == IF engine.controlsEnabled THEN CamPositions ELSE {camera}

\* renderer.init() resolves: init() goes on with isInitialized = true and the
\* first animate().  animate() is synchronous, so it runs to completion
\* before any other callback of the page.
InitResolved(in) ==
    /\ engine.initPending
    /\ engine.frames < MaxFrames
    /\ \E w \in { initResolved(world, in) } :
          /\ Becomes(w)
          /\ ctl' = IF w.engine.frames # engine.frames THEN NoCall ELSE ctl
    /\ UNCHANGED <<updates, retro, shade, biome, noise>>

\* the browser runs the animation frame callback id: one animate()
AnimationFrame(id, in) ==
    /\ id \in engine.pending
    /\ engine.frames < MaxFrames
    /\ \E w \in { animationFrame(world, id, in) } :
          /\ Becomes(w)
          /\ ctl' = IF w.engine.frames # engine.frames THEN NoCall ELSE ctl
    /\ UNCHANGED <<updates, retro, shade, biome, noise>>

\* The React effect: engine.updateControls(controls)
UpdateControls(params) ==
    /\ updates < MaxUpdates
    /\ updates' = updates + 1
    /\ Becomes(engineUpdateControls(world, params))
    /\ ctl' = [called |-> TRUE, params |-> params, before |-> uniforms]
    /\ UNCHANGED <<retro, shade, biome, noise>>

\* App.handleRestart -> engine.restart()
Restart ==
    /\ ~engine.disposed
    /\ Becomes(restart(world))
    /\ UNCHANGED <<ctl, updates, retro, shade, biome, noise>>

\* the cleanup of App's mount effect -> engine.dispose()
Dispose ==
    /\ ~engine.disposed
    /\ Becomes(dispose(world))
    /\ UNCHANGED <<ctl, updates, retro, shade, biome, noise>>

\* a keydown or keyup event of the window
HandleKey(code, isPressed) ==
    /\ controller' = handleKey(controller, code, isPressed)
    /\ UNCHANGED <<terrainVars, game, mgr, engine>>

\* the frames of the terrain's specification: 16 ms apart on the clock (the
\* first reads 0, see getDelta), no enemy touched
TerrainFrames ==
    { [delta |-> 16, hitPattern |-> << >>, ramPattern |-> {}, orbit |-> cam, pixels |-> pix] :
      cam \in OrbitPositions, pix \in PixelMaps }

Next ==
    \/ \E in \in TerrainFrames : engine.frames < MaxTerrainFrames /\ InitResolved(in)
    \/ \E id \in 1 .. MaxTerrainFrames, in \in TerrainFrames :
          engine.frames < MaxTerrainFrames /\ AnimationFrame(id, in)
    \/ \E params \in FrameParams : UpdateControls(params)

Spec == Init /\ [][Next]_vars

\* applyRetroEffects on a colour whose channels are already quantised levels
QuantLevels == { (k * ColorUnit) \div (colorNum - 1) : k \in 0 .. colorNum - 1 }

InitRetro ==
    /\ Constructed
    /\ uniforms = setupUniforms
    /\ camera = <<0, 1500, 1000>>
    /\ base = setupGeometry
    /\ position = setupGeometry
    /\ gpu = << >>
    /\ ctl = NoCall
    /\ updates = 0
    /\ retro \in { [applied |-> FALSE, in |-> <<r, g, b>>, pixel |-> <<px, py>>,
                    out |-> <<0, 0, 0>>] :
                   r \in QuantLevels, g \in QuantLevels, b \in {0, ColorUnit},
                   px \in 0 .. MaxPixel, py \in 0 .. MaxPixel }
    /\ shade = NoShade
    /\ biome = NoBiome
    /\ noise = NoNoise

ApplyRetro ==
    /\ ~retro.applied
    /\ retro' = [retro EXCEPT !.applied = TRUE,
                              !.out = applyRetroEffects(retro.in, colorNum, retro.pixel)]
    /\ UNCHANGED <<uniforms, camera, base, position, gpu, ctl, updates, shade, biome, noise, gameVars>>

SpecRetro == InitRetro /\ [][ApplyRetro]_vars

NextControls == \E params \in ControlParams : UpdateControls(params)

SpecControls == Init /\ [][NextControls]_vars

\* --- colorNode on a single fragment ---

FragCoords == { k * 250 : k \in (0 - MaxFrag) .. MaxFrag }

\* reconstructed terrain heights of the fragments: water level, sand, grass, rock
FragHeights == { -200, 0, 500, 900 }

FragPositions == { <<x, y, z>> : x \in FragCoords, y \in FragHeights, z \in FragCoords }

\* uShadowPosition / uShadowRotation as the frame loop of src/unnamed/part_003
\* copies them from the player (lines 129-130), and as ThreeEngine.js leaves
\* them (the origin); an actor on the ground, flying, far above the fade
\* height and below the terrain
ShadowPoses == { <<0, 0, 0>>, <<250, 1000, 0>>, <<0, 5000, 250>>, <<0, -2000, 0>> }

\* the uniforms of a frame whose camera is at the initial camera position
ShadeUniforms ==
    { [setupUniforms EXCEPT !.uCameraPosition = <<0, 1500, 1000>>,
                            !.uShadowPosition = sp, !.uShadowRotation = rot,
                            !.uShadowOffset = off, !.uShadowRadius = rad,
                            !.uShadowOpacity = op] :
      sp \in ShadowPoses, rot \in {0, 1}, off \in {0, 300},
      rad \in {-100, 0, 400}, op \in {0, 50, 100} }

InitShade ==
    /\ Constructed
    /\ uniforms \in ShadeUniforms
    /\ camera = <<0, 1500, 1000>>
    /\ base = setupGeometry
    /\ position = setupGeometry
    /\ gpu = << >>
    /\ ctl = NoCall
    /\ updates = 0
    /\ retro = NoRetro
    /\ shade \in { [NoShade EXCEPT !.pos = p] : p \in FragPositions }
    /\ biome = NoBiome
    /\ noise = NoNoise

\* pixels of the fragment: the first, the last and a middle entry of the
\* first row of the dither matrix, and an entry of another row
FragPixels == { <<0, 0>>, <<7, 0>>, <<3, 5>> }

\* the fragment shader runs for the fragment at shade.pos, which the
\* rasteriser has put on pixel
ShadeFragment(pixel) ==
    /\ ~shade.done
    /\ shade' = [shade EXCEPT !.done = TRUE,
                              !.frag = colorNode(shade.pos, uniforms, pixel),
                              !.shadow = shadowCalc(shade.pos, uniforms)]
    /\ UNCHANGED <<uniforms, camera, base, position, gpu, ctl, updates, retro, biome, noise, gameVars>>

NextShade == \E pixel \in FragPixels : ShadeFragment(pixel)

SpecShade == InitShade /\ [][NextShade]_vars

\* --- the biome blend ---

BlendHeights == { k * 50 : k \in -6 .. MaxHeightStep }

\* the assets' samples at two different texture coordinates
SampleSets ==
    { textureSamples,
      [ water |-> <<0, 0, 0, 100>>, sand |-> <<19200, 19200, 0, 100>>,
        grass |-> <<0, 19200, 0, 100>>, rock |-> <<4800, 4800, 4800, 100>> ] }

\* band thresholds: the defaults, overlapping bands, and a sand band whose
\* start lies above its end
BandUniforms ==
    { setupUniforms,
      [setupUniforms EXCEPT !.uSandStart = -100, !.uSandEnd = 300,
                            !.uGrassStart = 0, !.uGrassEnd = 200,
                            !.uRockStart = 100, !.uRockEnd = 500],
      [setupUniforms EXCEPT !.uSandStart = 150, !.uSandEnd = -100] }

InitBiome ==
    /\ Constructed
    /\ uniforms \in BandUniforms
    /\ camera = <<0, 1500, 1000>>
    /\ base = setupGeometry
    /\ position = setupGeometry
    /\ gpu = << >>
    /\ ctl = NoCall
    /\ updates = 0
    /\ retro = NoRetro
    /\ shade = NoShade
    /\ biome = NoBiome
    /\ noise = NoNoise

\* lines 392-395 run for a fragment of reconstructed height h with samples t
Blend(t, h) ==
    /\ biome' = [done |-> TRUE, h |-> h, t |-> t, out |-> biomeBlend(t, h, uniforms)]
    /\ UNCHANGED <<uniforms, camera, base, position, gpu, ctl, updates, retro, shade, noise, gameVars>>

NextBiome == \E t \in SampleSets, h \in BlendHeights : Blend(t, h)

SpecBiome == InitBiome /\ [][NextBiome]_vars

\* --- fbm ---

InitNoise ==
    /\ Constructed
    /\ uniforms = setupUniforms
    /\ camera = <<0, 1500, 1000>>
    /\ base = setupGeometry
    /\ position = setupGeometry
    /\ gpu = << >>
    /\ ctl = NoCall
    /\ updates = 0
    /\ retro = NoRetro
    /\ shade = NoShade
    /\ biome = NoBiome
    /\ noise \in { [done |-> FALSE, pos |-> p, octaves |-> o, frequency |-> f,
                    amplitude |-> a, lacunarity |-> l, persistence |-> q, out |-> 0] :
                   p \in { <<0, 0, 0>>, <<256, 0, 0>>, <<512, 0, -256>>, <<-768, 0, 1280>> },
                   o \in (0 - MaxOctaves) .. MaxOctaves,
                   f \in {60, 500}, a \in {20, 500}, l \in {16, 40}, q \in {90, 50} }

ApplyFbm ==
    /\ ~noise.done
    /\ noise' = [noise EXCEPT !.done = TRUE,
                              !.out = fbm(noise.pos, noise.octaves, noise.frequency,
                                          noise.amplitude, noise.lacunarity,
                                          noise.persistence)]
    /\ UNCHANGED <<uniforms, camera, base, position, gpu, ctl, updates, retro, shade, biome, gameVars>>

SpecNoise == InitNoise /\ [][ApplyFbm]_vars

----------------------------------------------------------------------------
(* GameState on its own: any sequence of its methods *)

GameOptions == { << >>, [maxHealth |-> 25], [maxHealth |-> 0] }
Amounts == {0, 10, 40, 150}

InitGame ==
    /\ TerrainConstructed
    /\ game \in { gameOf(GameState(o)) : o \in GameOptions }
    /\ mgr = mgrOf(EnemyManager(<< >>))
    /\ engine = ThreeEngine
    /\ controller = AirshipController

TakeDamage(amount) ==
    /\ game' = gameAfter(game, "takeDamage", amount, GameState_takeDamage(game.obj, amount))
    /\ UNCHANGED <<terrainVars, mgr, engine, controller>>

Heal(amount) ==
    /\ game' = gameAfter(game, "heal", amount, GameState_heal(game.obj, amount))
    /\ UNCHANGED <<terrainVars, mgr, engine, controller>>

AddScore(amount) ==
    /\ game.obj.score + amount <= MaxScore
    /\ game' = gameAfter(game, "addScore", amount, GameState_addScore(game.obj, amount))
    /\ UNCHANGED <<terrainVars, mgr, engine, controller>>

Reset ==
    /\ game' = gameAfter(game, "reset", 0, GameState_reset(game.obj))
    /\ UNCHANGED <<terrainVars, mgr, engine, controller>>

NextGame ==
    \/ \E amount \in Amounts : TakeDamage(amount)
    \/ \E amount \in Amounts : Heal(amount)
    \/ AddScore(100)
    \/ Reset

SpecGameState == InitGame /\ [][NextGame]_vars

----------------------------------------------------------------------------
(* EnemyManager on its own: update and reset calls, and the damage the      *)
(* frame's anchor loop deals to an enemy getEnemies() returned              *)

ManagerOptions == { << >>, [maxEnemies |-> MaxEnemiesOpt] }
ManagerDeltas == {200, 3000}

InitEnemies ==
    /\ TerrainConstructed
    /\ game = gameOf(GameState(<< >>))
    /\ mgr \in { mgrOf(EnemyManager(o)) : o \in ManagerOptions }
    /\ engine = ThreeEngine
    /\ controller = AirshipController

ManagerUpdate(delta) ==
    /\ mgr.calls < MaxManagerCalls
    /\ mgr' = mgrAfter(mgr, "update", delta, EnemyManager_update(mgr.obj, delta))
    /\ UNCHANGED <<terrainVars, game, engine, controller>>

\* lines 132-137 for one hit of the anchor on the k-th enemy getEnemies()
\* returns: killed = enemy.takeDamage(1); if (killed) gameState.addScore(100)
EnemyDamaged(k) ==
    /\ k <= Len(getEnemies(mgr.obj))
    /\ \E i \in { getEnemies(mgr.obj)[k] } :
          \E r \in { Enemy_takeDamage(mgr.obj.enemies[i], 1) } :
             /\ mgr' = [mgr EXCEPT !.obj.enemies[i] = r.e,
                                   !.last = [op |-> "takeDamage", delta |-> 0,
                                             before |-> mgr.obj, disposed |-> << >>]]
             /\ game' = IF r.killed
                        THEN gameAfter(game, "addScore", 100, GameState_addScore(game.obj, 100))
                        ELSE game
    /\ UNCHANGED <<terrainVars, engine, controller>>

\* EnemyManager.onEnemyKilled(enemy, gameState): gameState.addScore(100)
OnEnemyKilled ==
    /\ game.obj.score + 100 <= MaxScore
    /\ game' = gameAfter(game, "addScore", 100, GameState_addScore(game.obj, 100))
    /\ UNCHANGED <<terrainVars, mgr, engine, controller>>

ManagerReset ==
    /\ mgr' = mgrAfter(mgr, "reset", 0, EnemyManager_reset(mgr.obj))
    /\ UNCHANGED <<terrainVars, game, engine, controller>>

NextEnemies ==
    \/ \E delta \in ManagerDeltas : ManagerUpdate(delta)
    \/ \E k \in 1 .. 3 : EnemyDamaged(k)
    \/ OnEnemyKilled
    \/ ManagerReset

SpecEnemies == InitEnemies /\ [][NextEnemies]_vars

----------------------------------------------------------------------------
(* The engine's life cycle and its frames.  A frame's inputs are its delta   *)
(* and which enemies the anchor and the player touch.                       *)

FrameDeltas == {500, 1000}
HitPatterns == { << >>, <<1, 1>>, <<2>> }
RamPatterns == { {}, {2}, {1, 2} }

\* the frames of the engine's specification: no key is down and the orbit
\* camera is off, so the camera rests
EngineFrames ==
    { [delta |-> delta, hitPattern |-> hitPattern, ramPattern |-> ramPattern,
       orbit |-> camera, pixels |-> pixelMap(1, 0)] :
      delta \in FrameDeltas, hitPattern \in HitPatterns, ramPattern \in RamPatterns }

NextEngine ==
    \/ \E in \in EngineFrames : InitResolved(in)
    \/ \E id \in 1 .. MaxFrames, in \in EngineFrames : AnimationFrame(id, in)
    \/ Restart
    \/ Dispose

SpecEngine == Init /\ [][NextEngine]_vars

----------------------------------------------------------------------------
(* The controller under presses of the vertical keys and frame times        *)

ControllerDeltas == {100, 500}

\* controller.update(delta), called by animate() at line 119
ControllerUpdate(delta) ==
    /\ \E r \in { AirshipController_update(controller, camera, delta) } :
          /\ controller' = r.c
          /\ camera' = r.camera
    /\ UNCHANGED <<uniforms, base, position, gpu, ctl, updates, retro, shade, biome, noise,
                   game, mgr, engine>>

NextController ==
    \/ \E code \in {"Space", "KeyC"}, isPressed \in BOOLEAN : HandleKey(code, isPressed)
    \/ \E delta \in ControllerDeltas : ControllerUpdate(delta)
    \/ Restart

SpecController == Init /\ [][NextController]_vars

----------------------------------------------------------------------------
(* Properties *)

FrameDone == gpu # << >>

\* the uniforms the last frame's compute pass read
computeU == gpu[1].u

\* the multiple s of seg with s <= c < s + seg
cellOrigin(c, seg) == CHOOSE s \in { k * seg : k \in (0 - MaxCamCell - 2) .. (MaxCamCell + 2) } :
                          s <= c /\ c < s + seg

\* the tile's offset as the position buffer holds it
offsetX == position[0][1] - base[0][1]
offsetZ == position[0][3] - base[0][3]

\* C1: after a frame's compute pass every slot i of the position buffer is
\* (base[i].x + snapX, finalHeight(i), base[i].z + snapZ), all computed from
\* that frame's camera position and parameters; no slot keeps an older value.
C1_PositionRecomputed ==
    FrameDone =>
        /\ computeU.uCameraPosition = camera
        /\ \A i \in Verts :
            LET u == computeU
                wx == base[i][1] + cellOrigin(camera[1], uSegmentSize)
                wz == base[i][3] + cellOrigin(camera[3], uSegmentSize)
                drop == horizonDrop(distXZ(<<wx, 0, wz>>, camera), u)
                raw == rawHeight(<<wx, 0, wz>>, u)
            IN  position[i] = <<wx, Max(raw - drop, u.waterFloor - drop), wz>>

\* a frame that moved the tile and ran with changed parameters
C1_Witness ==
    /\ FrameDone
    /\ updates > 0
    /\ computeU # [setupUniforms EXCEPT !.uCameraPosition = camera]
    /\ offsetX < 0
    /\ \A i \in Verts : position[i] # setupGeometry[i]

\* C2: each component of the snap offset is an exact multiple of segmentSize
\* and 0 <= camera - snap < segmentSize, on the x and the z axis, for
\* positive, zero and negative camera coordinates.
C2_SnapWithinCell ==
    FrameDone =>
        \A i \in Verts :
            LET sx == position[i][1] - base[i][1]
                sz == position[i][3] - base[i][3]
                cam == computeU.uCameraPosition
            IN  /\ sx % uSegmentSize = 0
                /\ sz % uSegmentSize = 0
                /\ 0 <= cam[1] - sx /\ cam[1] - sx < uSegmentSize
                /\ 0 <= cam[3] - sz /\ cam[3] - sz < uSegmentSize

\* a frame with a negative camera coordinate that is no multiple of the cell size
C2_Witness ==
    /\ FrameDone
    /\ computeU.uCameraPosition[1] < 0
    /\ computeU.uCameraPosition[1] % uSegmentSize # 0
    /\ offsetX = cellOrigin(camera[1], uSegmentSize)

\* C3: from one frame to the next the snap offset stays the same or changes
\* by a whole multiple of cellSize per axis; it is unchanged while the camera
\* stays in one cell (x from 0 to cellSize - 0.01) and grows by exactly
\* cellSize when the camera crosses into the next cell (x = cellSize + 0.01).
C3_SnapDiscreteSteps ==
    [][ /\ (offsetX' - offsetX) % uSegmentSize = 0
        /\ (offsetZ' - offsetZ) % uSegmentSize = 0
        /\ (FrameDone /\ cellOrigin(camera'[1], uSegmentSize) = cellOrigin(camera[1], uSegmentSize))
              => offsetX' = offsetX
        /\ (FrameDone /\ cellOrigin(camera'[3], uSegmentSize) = cellOrigin(camera[3], uSegmentSize))
              => offsetZ' = offsetZ
        /\ (FrameDone /\ camera[1] = 0 /\ camera'[1] = uSegmentSize - 1)
              => offsetX' = offsetX
        /\ (FrameDone /\ camera[1] = uSegmentSize - 1 /\ camera'[1] = uSegmentSize + 1)
              => offsetX' = offsetX + uSegmentSize
      ]_vars

\* the camera has crossed into cell 1 on x and the tile has followed
C3_Witness ==
    /\ FrameDone
    /\ camera[1] = uSegmentSize + 1
    /\ offsetX = uSegmentSize

\* C4: for every vertex, finalHeight >= curvedWaterFloor = waterFloor - drop,
\* drop being the horizon drop of that vertex.
C4_AboveCurvedWaterFloor ==
    FrameDone =>
        \A i \in Verts :
            LET u == computeU
                drop == horizonDrop(distXZ(position[i], u.uCameraPosition), u)
            IN  position[i][2] >= u.waterFloor - drop

\* a vertex whose raw height is below the water floor, with a non-zero drop
C4_Witness ==
    /\ FrameDone
    /\ \E i \in Verts :
           LET u == computeU
               drop == horizonDrop(distXZ(position[i], u.uCameraPosition), u)
           IN  /\ rawHeight(position[i], u) < u.waterFloor
               /\ drop > 0
               /\ position[i][2] = u.waterFloor - drop

\* C5: in every frame the compute pass is issued with uCameraPosition set to
\* the current camera position, before the render pass of that frame, and
\* the render pass consumes the position buffer written for that camera.
C5_ComputeBeforeRender ==
    FrameDone =>
        /\ Len(gpu) = 2
        /\ gpu[1].pass = "compute"
        /\ gpu[2].pass = "render"
        /\ gpu[1].u.uCameraPosition = gpu[1].camera
        /\ gpu[2].camera = gpu[1].camera
        /\ \A i \in Verts :
              /\ gpu[2].position[i][1] - base[i][1] = cellOrigin(gpu[2].camera[1], uSegmentSize)
              /\ gpu[2].position[i][3] - base[i][3] = cellOrigin(gpu[2].camera[3], uSegmentSize)
              /\ gpu[2].position[i] = computeWorker(base[i], gpu[1].u)

\* a frame rendered after the camera left the cell of the initial buffer
C5_Witness ==
    /\ FrameDone
    /\ gpu[2].camera[1] >= uSegmentSize
    /\ gpu[2].position[0][1] = base[0][1] + uSegmentSize

\* C6: a configuration write never lands between the compute dispatch and
\* the render call of one frame: both passes read the same value of every
\* uniform.
C6_FrameReadsOneConfiguration ==
    FrameDone => /\ gpu[1].u = gpu[2].u
                 /\ gpu[2].u = [uniforms EXCEPT !.uCameraPosition = gpu[2].camera]
                    \/ ctl.called

\* a frame that ran after a configuration write, followed by another write
C6_Witness ==
    /\ FrameDone
    /\ ctl.called
    /\ updates = MaxUpdates
    /\ gpu[1].u.uHorizonCurve = 0
    /\ gpu[2].u.uHorizonCurve = 0
    /\ uniforms.waterFloor # gpu[2].u.waterFloor

\* the params key assigned to uniform name, if any
keyOf(name) == { k \in DOMAIN paramUniform : paramUniform[k] = name }

\* C7: updateControls(params) changes exactly the uniforms whose key is in
\* params with a value other than undefined, each to the supplied value;
\* every other uniform keeps its value, and uCameraPosition, uSegmentSize,
\* uShadowPosition and uShadowRotation are never changed.
C7_UpdateControlsFrame ==
    ctl.called =>
        /\ \A name \in UniformNames :
              IF \E k \in keyOf(name) : isDefined(ctl.params, k)
              THEN LET k == CHOOSE k \in keyOf(name) : TRUE
                   IN  uniforms[name] = IF k = "fogColor" THEN colorSet(ctl.params[k][1])
                                        ELSE ctl.params[k][1]
              ELSE uniforms[name] = ctl.before[name]
        /\ \A name \in {"uCameraPosition", "uSegmentSize", "uShadowPosition", "uShadowRotation"} :
              uniforms[name] = ctl.before[name]

\* a call that sets one key, passes another as undefined and omits the rest
C7_Witness ==
    /\ ctl.called
    /\ \E k \in DOMAIN ctl.params : ctl.params[k] = << >>
    /\ isDefined(ctl.params, "horizonCurve")
    /\ uniforms.uHorizonCurve # ctl.before.uHorizonCurve
    /\ "octaves" \notin DOMAIN ctl.params
    /\ ctl.before # setupUniforms

\* C8: the base buffer is never written after creation, and worker i writes
\* position[i] from base[i] alone.
C8_BaseImmutable ==
    /\ base = setupGeometry
    /\ FrameDone => \A i \in Verts : position[i] = computeWorker(setupGeometry[i], computeU)

\* a frame has rewritten every slot of the position buffer
C8_Witness ==
    /\ FrameDone
    /\ offsetX > 0
    /\ \A i \in Verts : position[i] # base[i]

\* the fragments of the last render pass
frameOf == gpu[2].frame

\* C9: the retro filter is the last colour transform of the colour stage: the
\* returned fragment value of every fragment is the filter's output.
C9_RetroIsLast ==
    FrameDone => \A i \in Verts : frameOf[i].out = frameOf[i].retroColor

\* C10 as stated: a channel already at one of the N levels comes back
\* unchanged, for every level and every matrix entry.
C10_RetroIdempotent ==
    retro.applied => retro.out = retro.in

\* C10 amended (N = 4): the level comes back unchanged for the 30 matrix
\* entries >= 34/64 and one level lower, (k-1)/3, for the 34 entries <= 33/64.
C10_RetroLevelShift ==
    retro.applied =>
        \A ch \in 1 .. 3 :
            retro.out[ch] = IF bayerAt(retro.pixel) >= 34 THEN retro.in[ch]
                            ELSE retro.in[ch] - ColorUnit \div (colorNum - 1)

\* level 0 at a pixel with a low threshold comes back as -1/3
C10_Witness ==
    /\ retro.applied
    /\ bayerAt(retro.pixel) <= 33
    /\ retro.pixel[1] >= BayerSize
    /\ retro.in[1] = 0
    /\ retro.out[1] = 0 - ColorUnit \div (colorNum - 1)

\* C11: every channel applyRetroEffects returns is one of the N evenly spaced
\* levels 0, 1/(N-1), ..., 1, hence inside [0, 1].
C11_RetroInLevels ==
    retro.applied => \A ch \in 1 .. 3 : retro.out[ch] \in QuantLevels

\* C12 as stated: the shadow step never lightens, each channel after
\* retroColor *= 1 - finalShadowFactor is at most the channel before it.
C12_ShadowNeverLightens ==
    shade.done => \A ch \in 1 .. 3 : shade.frag.out[ch] <= shade.frag.retroColor[ch]

\* C13: with uShadowOpacity = 0, for every fragment and actor pose, yaw,
\* offset and radius, finalShadowFactor is 0 and the returned colour equals
\* the colour before the shadow step.
C13_ZeroOpacityNoShadow ==
    (shade.done /\ uniforms.uShadowOpacity = 0) =>
        /\ shade.shadow.finalShadowFactor = 0
        /\ shade.frag.finalShadowFactor = 0
        /\ shade.frag.out = shade.frag.retroColor

\* a fragment under the decal, below the fade height, shaded with opacity 0
C13_Witness ==
    /\ shade.done
    /\ uniforms.uShadowOpacity = 0
    /\ shade.shadow.shadowAlpha > 0
    /\ shade.shadow.heightFade > 0
    /\ shade.frag.retroColor # <<0, 0, 0>>
    /\ uniforms.uShadowRotation # 0

\* shadowUV.x or shadowUV.y of the last shaded fragment is <= 0 or >= 1
uvOutside ==
    LET sh == shade.shadow
    IN  \/ 2 * sh.rotX <= 0 - sh.finalShadowSize
        \/ 2 * sh.rotX >= sh.finalShadowSize
        \/ 2 * sh.rotY <= 0 - sh.finalShadowSize
        \/ 2 * sh.rotY >= sh.finalShadowSize

\* C14: a fragment whose shadowUV has x or y outside (0, 1) gets shadowAlpha
\* = 0 and its colour is left unchanged by the shadow, whatever the actor
\* pose and the opacity; the decal is not tiled.
C14_OutsideDecalNoShadow ==
    (shade.done /\ uvOutside) =>
        /\ shade.shadow.shadowAlpha = 0
        /\ shade.frag.finalShadowFactor = 0
        /\ shade.frag.out = shade.frag.retroColor

\* a fragment beside the decal of a low-flying actor, with full opacity
C14_Witness ==
    /\ shade.done
    /\ uvOutside
    /\ uniforms.uShadowOpacity = 100
    /\ uniforms.uShadowRadius > 0
    /\ shade.shadow.heightFade > 0
    /\ shade.frag.retroColor # <<0, 0, 0>>

\* C15: the divisor finalShadowSize is at least 0.1 (and shadowScale is at
\* least 0.1) for every actor height, above or below the terrain, and every
\* uShadowRadius, zero and negative included.
C15_ShadowSizeFloor ==
    shade.done => /\ shade.shadow.finalShadowSize >= 10
                  /\ shade.shadow.shadowScale >= 10

\* an actor more than 10 units below the fragment, and a negative radius
C15_Witness ==
    /\ shade.done
    /\ shade.shadow.shipHeight < -1000
    /\ uniforms.uShadowRadius < 0
    /\ shade.shadow.shadowScale = 10
    /\ shade.shadow.finalShadowSize = 10

\* the three bands: threshold uniforms and the field of the blend's ramp
Bands ==
    { [start |-> "uSandStart", end |-> "uSandEnd", ramp |-> "rSand", color |-> "sand"],
      [start |-> "uGrassStart", end |-> "uGrassEnd", ramp |-> "rGrass", color |-> "grass"],
      [start |-> "uRockStart", end |-> "uRockEnd", ramp |-> "rRock", color |-> "rock"] }

\* C16: for each band with start < end the blend weight is non-decreasing in
\* the height h: for two evaluations with start <= h1 <= h2 <= end the
\* second ramp is >= the first; the ramp is 0 at start and 1 at end.
C16_RampMonotone ==
    [][ \A b \in Bands :
          uniforms[b.start] < uniforms[b.end] =>
              /\ (biome.done /\ uniforms[b.start] <= biome.h /\ biome.h <= biome'.h
                     /\ biome'.h <= uniforms[b.end])
                    => biome'.out[b.ramp] >= biome.out[b.ramp]
              /\ biome'.h = uniforms[b.start] => biome'.out[b.ramp] = 0
              /\ biome'.h = uniforms[b.end] => biome'.out[b.ramp] = 100
      ]_vars

\* a height strictly inside the sand ramp and the grass ramp at once, with
\* both weights strictly between 0 and 1
C16_Witness ==
    /\ biome.done
    /\ uniforms.uSandStart < biome.h /\ biome.h < uniforms.uSandEnd
    /\ uniforms.uGrassStart < biome.h /\ biome.h < uniforms.uGrassEnd
    /\ 0 < biome.out.rSand /\ biome.out.rSand < 100
    /\ 0 < biome.out.rGrass /\ biome.out.rGrass < biome.out.rSand

rgb(c) == <<c[1], c[2], c[3]>>

\* C17: the bands are composited in the order water, sand, grass, rock with
\* result = mix(result, next, ramp): whenever a band's ramp is 1 (h >= its
\* end, start < end) the colour after that step is that band's sample,
\* whatever the water and lower-band samples; h >= rockEnd gives exactly the
\* rock sample.
C17_HigherBandWins ==
    biome.done =>
        \A b \in Bands :
            /\ biome.out[b.ramp] = 100 => biome.out[b.color] = rgb(biome.t[b.color])
            /\ (uniforms[b.start] < uniforms[b.end] /\ biome.h >= uniforms[b.end])
                  => /\ biome.out[b.ramp] = 100
                     /\ biome.out[b.color] = rgb(biome.t[b.color])

\* a height above rockEnd where the grass ramp is 1 as well: the result is
\* the rock sample, not the grass sample
C17_Witness ==
    /\ biome.done
    /\ biome.h >= uniforms.uRockEnd
    /\ biome.out.rGrass = 100
    /\ biome.out.rSand = 100
    /\ biome.out.rock = rgb(biome.t.rock)
    /\ biome.out.rock # biome.out.grass
    /\ biome.t # textureSamples

\* C18: at every vertex the shading height h = position.y + drop of colorNode
\* equals the un-curved clamped height max(rawHeight, waterFloor) of the
\* compute stage, whatever the vertex's distance from the camera.
C18_HeightRoundTrip ==
    FrameDone =>
        \A i \in Verts :
            LET u == gpu[1].u
                worldPos == <<base[i][1] + cellOrigin(camera[1], uSegmentSize), 0,
                              base[i][3] + cellOrigin(camera[3], uSegmentSize)>>
                raw == (fbm(worldPos, u.octaves, u.frequency, u.amplitude,
                            u.lacunarity, u.persistence) + u.heightOffset) * u.heightScale
            IN  frameOf[i].h = Max(raw, u.waterFloor)

\* a frame with two vertices of equal shading height, one lowered by the
\* horizon drop and one not, and a vertex at the water floor
C18_Witness ==
    /\ FrameDone
    /\ \E i, j \in Verts :
          /\ frameOf[i].h = frameOf[j].h
          /\ frameOf[i].h > gpu[1].u.waterFloor
          /\ gpu[2].position[i][2] = frameOf[i].h
          /\ gpu[2].position[j][2] < frameOf[j].h
    /\ \E k \in Verts : /\ frameOf[k].h = gpu[1].u.waterFloor
                        /\ gpu[2].position[k][2] < frameOf[k].h

\* frequency and amplitude of iteration j of the fbm loop
RECURSIVE octaveFreq(_, _, _)
octaveFreq(j, frequency, lacunarity) ==
    IF j = 0 THEN frequency
    ELSE FloorDiv(octaveFreq(j - 1, frequency, lacunarity) * lacunarity, 10)

RECURSIVE octaveAmp(_, _, _)
octaveAmp(j, amplitude, persistence) ==
    IF j = 0 THEN amplitude
    ELSE FloorDiv(octaveAmp(j - 1, amplitude, persistence) * persistence, 100)

\* noise(pos * frequency * lacunarity^j) * amplitude * persistence^j
octaveTerm(n, j) ==
    LET f == octaveFreq(j, n.frequency, n.lacunarity)
    IN  FloorDiv(cnoise(n.pos[1] * f, n.pos[3] * f)
                    * octaveAmp(j, n.amplitude, n.persistence), 100)

RECURSIVE octaveSum(_, _)
octaveSum(n, k) == IF k <= 0 THEN 0 ELSE octaveSum(n, k - 1) + octaveTerm(n, k - 1)

\* C19: fbm runs its loop body max(octaves, 0) times: the result is 0 for
\* octaves = 0 and for every negative octave count, and for octaves = k >= 1
\* it is the sum over j in 0 .. k-1 of
\* noise(pos * frequency * lacunarity^j) * amplitude * persistence^j.
C19_FbmIterations ==
    noise.done =>
        /\ noise.octaves <= 0 => noise.out = 0
        /\ noise.octaves >= 1 => noise.out = octaveSum(noise, noise.octaves)

\* a negative octave count at a point where the noise is not zero
C19_Witness ==
    /\ noise.done
    /\ noise.octaves < 0
    /\ octaveTerm(noise, 0) # 0
    /\ noise.out = 0

\* C20: with horizonCurve = 0 the height of every vertex is
\* max((fbm(worldPos) + heightOffset) * heightScale, waterFloor), whatever its
\* distance from the camera; with octaves = 1, frequency = 0.06, amplitude =
\* 0.2, heightScale = 35, heightOffset = 0.09, waterFloor = -2.0 and the
\* camera at the origin the height at world (0, 0) is
\* max((noise(0,0) * 0.2 + 0.09) * 35, -2.0).
C20_FlatHorizonHeight ==
    (FrameDone /\ computeU.uHorizonCurve = 0) =>
        /\ \A i \in Verts :
              LET u == computeU
                  p == position[i]
              IN  p[2] = Max((fbm(<<p[1], 0, p[3]>>, u.octaves, u.frequency, u.amplitude,
                                  u.lacunarity, u.persistence) + u.heightOffset)
                                 * u.heightScale, u.waterFloor)
        /\ ( /\ computeU.octaves = 1 /\ computeU.frequency = 60
             /\ computeU.amplitude = 20 /\ computeU.heightScale = 35
             /\ computeU.heightOffset = 9 /\ computeU.waterFloor = -200
             /\ camera[1] = 0 /\ camera[3] = 0 )
           => \A i \in Verts :
                 (position[i][1] = 0 /\ position[i][3] = 0) =>
                     position[i][2] = Max((FloorDiv(cnoise(0, 0) * 20, 100) + 9) * 35, -200)

\* the scenario's frame: one octave, curvature 0, a horizon distance at which
\* the drop would not be zero, the camera at the origin
C20_Witness ==
    /\ FrameDone
    /\ computeU.uHorizonCurve = 0
    /\ computeU.octaves = 1
    /\ computeU.heightOffset = 9
    /\ camera[1] = 0 /\ camera[3] = 0
    /\ computeU.uHorizonDist = 10
    /\ \E i \in Verts : position[i] = <<0, 315, 0>>
    /\ \E i \in Verts :
          /\ distXZ(position[i], computeU.uCameraPosition) >= uSegmentSize
          /\ position[i][2] > computeU.waterFloor

\* C24: after any sequence of takeDamage, heal, addScore and reset calls with
\* amounts >= 0, health stays in the range 0 .. maxHealth.
C24_HealthInRange ==
    /\ game.obj.health >= 0
    /\ game.obj.health <= game.obj.maxHealth

\* a takeDamage larger than the health left, which the clamp stops at 0
C24_Witness ==
    /\ game.last.op = "takeDamage"
    /\ ~game.last.before.isGameOver
    /\ game.last.amount > game.last.before.health
    /\ game.obj.health = 0

\* C25: isGameOver is true exactly when health is 0; heal cannot raise the
\* health once the game is over, heal cannot produce health 0 while the game
\* is running, and only reset() leads from game over back to a running game,
\* with health = maxHealth and score = 0.
C25_GameOverIffNoHealth ==
    /\ game.obj.isGameOver <=> game.obj.health = 0
    /\ (game.last.op = "heal" /\ game.last.before.isGameOver)
          => game.obj.health = game.last.before.health
    /\ (game.last.op = "heal" /\ ~game.last.before.isGameOver) => game.obj.health > 0
    /\ (game.last.before.isGameOver /\ ~game.obj.isGameOver)
          => /\ game.last.op = "reset"
             /\ game.obj.health = game.obj.maxHealth
             /\ game.obj.score = 0

\* a heal with a positive amount after the game is over
C25_Witness ==
    /\ game.last.op = "heal"
    /\ game.last.amount > 0
    /\ game.last.before.isGameOver
    /\ game.obj.isGameOver
    /\ game.obj.health = 0

\* C26: onGameOver is invoked at most once between two reset() calls, by the
\* takeDamage call that first brings the health to 0; a later takeDamage or
\* heal before the next reset() leaves the object as it was and invokes no
\* callback.
C26_GameOverOnce ==
    /\ game.overs <= 1
    /\ countCalls(game.last.calls, "onGameOver") =
          (IF /\ game.last.op = "takeDamage"
              /\ ~game.last.before.isGameOver
              /\ game.obj.health = 0
           THEN 1 ELSE 0)
    /\ (game.last.op \in {"takeDamage", "heal"} /\ game.last.before.isGameOver)
          => /\ game.obj = game.last.before
             /\ game.last.calls = << >>

\* a takeDamage with a positive amount after the game is over
C26_Witness ==
    /\ game.last.op = "takeDamage"
    /\ game.last.amount > 0
    /\ game.last.before.isGameOver
    /\ game.overs = 1

\* C27: after any sequence of update and reset calls the manager holds at
\* most maxEnemies enemies.
C27_AtMostMaxEnemies ==
    Len(mgr.obj.enemies) <= mgr.obj.maxEnemies

\* an update whose wave was cut down to the room left and filled the list
C27_Witness ==
    /\ mgr.last.op = "update"
    /\ Len(mgr.last.before.enemies) < Len(mgr.obj.enemies)
    /\ mgr.last.before.waveSize + mgr.last.before.waveCount \div 2
          > mgr.obj.maxEnemies - Len(mgr.last.before.enemies)
    /\ Len(mgr.obj.enemies) = mgr.obj.maxEnemies

\* the enemies of the list before an update whose own update returns true
finishedIds(m, delta) ==
    { m.enemies[i].id : i \in { j \in 1 .. Len(m.enemies) :
                                  Enemy_update(m.enemies[j], delta).ready } }

\* C28: an update of an active manager removes exactly the enemies whose own
\* update returned true in that call, disposes each of them once, and keeps
\* the others in their relative order (a new wave comes after them).
C28_RemovesExactlyFinished ==
    (mgr.last.op = "update" /\ mgr.last.before.isActive) =>
        LET fin == finishedIds(mgr.last.before, mgr.last.delta)
            old == idsOf(mgr.last.before.enemies)
            now == idsOf(mgr.obj.enemies)
            kept == SelectSeq(old, LAMBDA id : id \notin fin)
        IN  /\ Len(now) >= Len(kept)
            /\ SubSeq(now, 1, Len(kept)) = kept
            /\ \A n \in Len(kept) + 1 .. Len(now) :
                  \A k \in 1 .. Len(old) : now[n] # old[k]
            /\ { mgr.last.disposed[n] : n \in 1 .. Len(mgr.last.disposed) } = fin
            /\ Len(mgr.last.disposed) = Cardinality(fin)

\* an update that removed the first and the third enemy of the list and kept
\* the one between them and a dying one
C28_Witness ==
    /\ mgr.last.op = "update"
    /\ Len(mgr.last.before.enemies) >= 3
    /\ Len(mgr.last.disposed) = 2
    /\ mgr.last.disposed = << mgr.last.before.enemies[3].id, mgr.last.before.enemies[1].id >>
    /\ \E i \in 1 .. Len(mgr.obj.enemies) : mgr.obj.enemies[i].isDead

\* the terrain parameters of two compute passes agree
sameTerrain(u, v) ==
    /\ u.octaves = v.octaves /\ u.frequency = v.frequency /\ u.amplitude = v.amplitude
    /\ u.lacunarity = v.lacunarity /\ u.persistence = v.persistence
    /\ u.heightOffset = v.heightOffset /\ u.heightScale = v.heightScale
    /\ u.waterFloor = v.waterFloor /\ u.uSegmentSize = v.uSegmentSize

\* the height of a computed vertex before the horizon drop
undropped(p, u) == p[2] + horizonDrop(distXZ(p, u.uCameraPosition), u)

\* C21: a world point (x, z) covered by the grid in two successive frames
\* computed with the same terrain parameters has the same height before the
\* horizon drop in both, whatever the frames' snap offsets.
C21_SameHeightAcrossFrames ==
    [][ (gpu # << >> /\ gpu' # << >> /\ sameTerrain(gpu[1].u, gpu'[1].u)) =>
           \A i \in Verts : \A j \in Verts :
              (position[i][1] = position'[j][1] /\ position[i][3] = position'[j][3])
                 => undropped(position[i], gpu[1].u) = undropped(position'[j], gpu'[1].u) ]_vars

\* a frame with a non-zero snap offset, one of whose vertices lies above the
\* water at a world point the grid also covers at offset zero, at another
\* grid-local position
C21_Witness ==
    /\ FrameDone
    /\ worldOffset(computeU) # <<0, 0, 0>>
    /\ \E i \in Verts : \E j \in Verts :
          /\ i # j
          /\ position[i][1] = base[j][1] /\ position[i][3] = base[j][3]
          /\ undropped(position[i], computeU) > computeU.waterFloor
          /\ rawHeight(base[i], computeU) # rawHeight(<<position[i][1], 0, position[i][3]>>, computeU)

\* C22: after dispose() no animation frame is scheduled and no animate()
\* issues a compute or render call, whether dispose() came before or after
\* the end of renderer.init().
C22_StoppedAfterDispose ==
    engine.disposed => (engine.pending = {} /\ ~engine.last.gpu)

\* C23: starting inside [minHeight, maxHeight], player.position.y stays
\* inside it after any sequence of update(delta) calls and key presses.
C23_HeightInRange ==
    controller.position[2] >= minHeight /\ controller.position[2] <= maxHeight

\* C29: a frame calls gameState.takeDamage for at most one colliding enemy,
\* and only when no ram damage was dealt since the start or the last
\* restart or the frame deltas since the last one add up to the cooldown
\* time; restart() sets the cooldown to 0.
C29_RamRateLimited ==
    [][ /\ (engine'.last.op = "animate" /\ engine'.frames # engine.frames)
           => /\ engine'.last.ramCalls <= 1
              /\ engine'.last.ramCalls = 1
                    => \/ engine.sinceDamage < 0
                       \/ engine.sinceDamage + engine'.last.delta >= damageCooldownTime
        /\ engine'.last.op = "restart" => engine'.damageCooldown = 0 ]_vars

\* the second ram damage of a game, dealt once the cooldown has run out, in
\* a frame in which two enemies touch the player
C29_Witness ==
    /\ engine.last.op = "animate"
    /\ engine.last.touching = 2
    /\ engine.last.ramCalls = 1
    /\ engine.damageCooldown = damageCooldownTime
    /\ game.obj.health = game.obj.maxHealth - 20

\* C30: a dead enemy stays dead with its health unchanged, whatever hits
\* it afterwards; the 100 points of a kill are added once per enemy, in the
\* frame that kills it.
C30_KilledOnce ==
    /\ [](\A a, b \in 1 .. Len(engine.scored) :
             engine.scored[a] = engine.scored[b] => a = b)
    /\ [][ /\ \A i \in 1 .. Len(mgr.obj.enemies) : \A j \in 1 .. Len(mgr'.obj.enemies) :
                 (mgr.obj.enemies[i].id = mgr'.obj.enemies[j].id /\ mgr.obj.enemies[i].isDead)
                    => /\ mgr'.obj.enemies[j].isDead
                       /\ mgr'.obj.enemies[j].health = mgr.obj.enemies[i].health
           /\ (engine'.last.op = "animate" /\ engine'.frames # engine.frames)
                 => /\ game'.obj.score - game.obj.score
                          = 100 * (Len(engine'.scored) - Len(engine.scored))
                    /\ \A n \in Len(engine.scored) + 1 .. Len(engine'.scored) :
                          /\ \A i \in 1 .. Len(mgr.obj.enemies) :
                                mgr.obj.enemies[i].id = engine'.scored[n]
                                   => ~mgr.obj.enemies[i].isDead
                          /\ \E j \in 1 .. Len(mgr'.obj.enemies) :
                                /\ mgr'.obj.enemies[j].id = engine'.scored[n]
                                /\ mgr'.obj.enemies[j].isDead
                                /\ mgr'.obj.enemies[j].health <= 0 ]_vars

\* a frame whose anchor hit the same enemy twice and scored it once
C30_Witness ==
    /\ engine.last.op = "animate"
    /\ engine.last.hits = 2
    /\ Len(engine.scored) = 1
    /\ game.obj.score = 100
    /\ \E i \in 1 .. Len(mgr.obj.enemies) :
          /\ mgr.obj.enemies[i].id = engine.scored[1]
          /\ mgr.obj.enemies[i].isDead
          /\ mgr.obj.enemies[i].health = 0

====
